---- MODULE Spec2Model ----
(***************************************************************************)
(* A model of the CircularTimeDial controller                              *)
(* (shared/components/circular-time-dial.js).                              *)
(*                                                                         *)
(* The dial object is the record `dial`; every method of the class that   *)
(* changes state is an operator from the record (and the value Date.now() *)
(* returns inside it) to the updated record, so that a handler calling    *)
(* other methods is the composition of their operators.  Callbacks handed *)
(* to requestAnimationFrame are counted in the raf* fields until the      *)
(* browser runs them; the setInterval callbacks may run at any time.      *)
(* render() only draws and is not modelled; the phase it draws is         *)
(* Lifecycle.                                                              *)
(*                                                                         *)
(* The SegmentRange control (unnamed/part_001) is the record `range`,      *)
(* with its methods as operators in the same way.                          *)
(***************************************************************************)
EXTENDS Integers, Sequences, FiniteSets, TLC

VARIABLES
    dial,           \* the fields of the CircularTimeDial instance
    debugSettings,  \* this.debugSettings, fixed at construction
    now,            \* the value Date.now() returns, in ms
    inputs,         \* keydown events dispatched so far
    event,          \* history: the key of the keydown event just handled, and
                    \* the dial before it; NoEvent after any other step
    range           \* the fields of the SegmentRange instance

vars == <<dial, debugSettings, now, inputs, event, range>>

----------------------------------------------------------------------------
(* Bounds of the exploration *)

\* Date.now() at construction
Epoch == 1000000
\* a short step of the clock, and how many of them are explored
TickMs == 1000
MaxTicks == 1
\* a long step of the clock (ten minutes), and how many of them are explored
SleepMs == 600000
MaxSleeps == 2
\* keydown events per run
MaxInputs == 3
\* callbacks of one animation that may be waiting for a frame at once
MaxFrames == 2

----------------------------------------------------------------------------
(* Constants of the program *)

null == 0
maxMinutes == 72 * 60
minTemp == 300
maxTemp == 480
maxAcceleration == 4
rapidModeWindow == 2000
rapidModeDecayTime == 600
ringFillDuration == 800
preheatSeconds == 10
DefaultFlashDuration == 150
DefaultFlashCount == 3
DefaultRapidModeThreshold == 30
DefaultResetDelayMs == 450
animationDuration == 300
trailDirectionAnimationDuration == 200
trailCatchUpDuration == 350
maxTrailLength == 7
undefined == 0 - 1

Min(a, b) == IF a < b THEN a ELSE b
Max(a, b) == IF a > b THEN a ELSE b

\* JavaScript's ToNumber on a timestamp field: null counts as 0
ToNumber(t) == IF t = null THEN 0 ELSE t

----------------------------------------------------------------------------
(* Construction *)

DefaultDebugSettings ==
    [ preheatEnabled     |-> TRUE,
      flashDuration      |-> DefaultFlashDuration,
      flashCount         |-> DefaultFlashCount,
      rapidModeThreshold |-> DefaultRapidModeThreshold,
      trailMode          |-> "standard",
      autoReset          |-> TRUE,
      resetDelayMs       |-> DefaultResetDelayMs,
      tickMode           |-> "wrap",
      globalTickMode     |-> "72-continuous",
      gradientColorMode  |-> "seamless" ]

Constructed(t) ==
    [ totalMinutes         |-> 10,
      temperature          |-> 400,
      tempMode             |-> TRUE,
      keyPressHistory      |-> <<>>,
      accelerationMultiplier |-> 1,
      rapidMode            |-> FALSE,
      lastKeyPressed       |-> "null",
      ringFillAnimation    |-> FALSE,
      ringFillStartTime    |-> null,
      countdownMode        |-> FALSE,
      countdownStartTime   |-> null,
      countdownDuration    |-> 0,
      preheatPhase         |-> FALSE,
      cookingComplete      |-> FALSE,
      selectedButton       |-> 0,
      isFlashing           |-> FALSE,
      flashStartTime       |-> null,
      flashVisible         |-> TRUE,
      hasFlashedAtBoundary |-> FALSE,
      lastActionTime       |-> t,
      scalingActive        |-> FALSE,
      animationStartTime   |-> null,
      animatingToState     |-> "null",
      trailDirection       |-> "normal",
      trailDirectionTarget |-> "normal",
      trailDirectionAnimationStart |-> null,
      trailCatchUpAnimation |-> FALSE,
      trailCatchUpStart    |-> null,
      lastMovementTime     |-> t,
      isMoving             |-> FALSE,
      movementDirection    |-> "null",
      trailLength          |-> 0,
      currentTrailLength   |-> undefined,
      rafRingFill          |-> 0,
      rafFlash             |-> 0,
      rafTransition        |-> 0,
      rafTrailDirection    |-> 0,
      autoBindKeys         |-> TRUE ]

\* the phase render() draws
Lifecycle(d) ==
    IF d.cookingComplete THEN "Complete"
    ELSE IF d.ringFillAnimation THEN "Starting"
    ELSE IF d.countdownMode
         THEN (IF d.preheatPhase /\ debugSettings.preheatEnabled
               THEN "Preheat" ELSE "Cooking")
    ELSE "Setup"

----------------------------------------------------------------------------
(* Acceleration *)

InWindow(h, t) == SelectSeq(h, LAMBDA s : t - s <= rapidModeWindow)

\* variant: a change of direction leaves the window as it is
calculateAccelerationKeepingWindow(d, currentKey, t) ==
    LET changed == d.lastKeyPressed # "null" /\ d.lastKeyPressed # currentKey
        rapid0  == IF changed THEN FALSE ELSE d.rapidMode
        hist    == InWindow(Append(d.keyPressHistory, t), t)
        rapid1  == rapid0 \/ Len(hist) >= debugSettings.rapidModeThreshold
        since   == IF Len(hist) >= 2 THEN t - hist[Len(hist) - 1] ELSE 0
        rapid   == rapid1 /\ ~(since > rapidModeDecayTime)
    IN  [d EXCEPT !.lastKeyPressed = currentKey,
                  !.keyPressHistory = hist,
                  !.rapidMode = rapid,
                  !.accelerationMultiplier =
                        IF rapid THEN maxAcceleration ELSE 1]

\* variant: entries older than the window are never discarded
calculateAccelerationUnfiltered(d, currentKey, t) ==
    LET changed == d.lastKeyPressed # "null" /\ d.lastKeyPressed # currentKey
        rapid0  == IF changed THEN FALSE ELSE d.rapidMode
        hist0   == IF changed THEN <<>> ELSE d.keyPressHistory
        hist    == Append(hist0, t)
        rapid1  == rapid0 \/ Len(hist) >= debugSettings.rapidModeThreshold
        since   == IF Len(hist) >= 2 THEN t - hist[Len(hist) - 1] ELSE 0
        rapid   == rapid1 /\ ~(since > rapidModeDecayTime)
    IN  [d EXCEPT !.lastKeyPressed = currentKey,
                  !.keyPressHistory = hist,
                  !.rapidMode = rapid,
                  !.accelerationMultiplier =
                        IF rapid THEN maxAcceleration ELSE 1]

\* variant: leaving rapid mode after a pause keeps the stored multiplier
calculateAccelerationStaleOnDecay(d, currentKey, t) ==
    LET changed == d.lastKeyPressed # "null" /\ d.lastKeyPressed # currentKey
        rapid0  == IF changed THEN FALSE ELSE d.rapidMode
        hist0   == IF changed THEN <<>> ELSE d.keyPressHistory
        hist    == InWindow(Append(hist0, t), t)
        rapid1  == rapid0 \/ Len(hist) >= debugSettings.rapidModeThreshold
        since   == IF Len(hist) >= 2 THEN t - hist[Len(hist) - 1] ELSE 0
        rapid   == rapid1 /\ ~(since > rapidModeDecayTime)
    IN  [d EXCEPT !.lastKeyPressed = currentKey,
                  !.keyPressHistory = hist,
                  !.rapidMode = rapid,
                  !.accelerationMultiplier =
                        IF rapid1 THEN maxAcceleration ELSE 1]

calculateAcceleration(d, currentKey, t) ==
    LET changed == d.lastKeyPressed # "null" /\ d.lastKeyPressed # currentKey
        rapid0  == IF changed THEN FALSE ELSE d.rapidMode
        hist0   == IF changed THEN <<>> ELSE d.keyPressHistory
        hist    == InWindow(Append(hist0, t), t)
        rapid1  == rapid0 \/ Len(hist) >= debugSettings.rapidModeThreshold
        \* now - history[length - 2] || 0
        since   == IF Len(hist) >= 2 THEN t - hist[Len(hist) - 1] ELSE 0
        rapid   == rapid1 /\ ~(since > rapidModeDecayTime)
    IN  [d EXCEPT !.lastKeyPressed = currentKey,
                  !.keyPressHistory = hist,
                  !.rapidMode = rapid,
                  !.accelerationMultiplier =
                        IF rapid THEN maxAcceleration ELSE 1]

----------------------------------------------------------------------------
(* Boundary flash *)

animateFlash(d, t) ==
    IF ~d.isFlashing THEN d
    ELSE LET elapsed    == t - ToNumber(d.flashStartTime)
             flashCycle == elapsed \div debugSettings.flashDuration
         IN  IF flashCycle >= debugSettings.flashCount * 2
             THEN [d EXCEPT !.isFlashing = FALSE, !.flashVisible = TRUE]
             ELSE [d EXCEPT !.flashVisible = (flashCycle % 2 = 0),
                            !.rafFlash = @ + 1]

startFlashAnimation(d, t) ==
    animateFlash([d EXCEPT !.isFlashing = TRUE,
                           !.flashStartTime = t,
                           !.flashVisible = TRUE], t)

\* "Only trigger flash once per boundary hit"
\* variant: every attempt at a bound restarts the flash
flashAtBoundaryEveryTime(d, t) ==
    [startFlashAnimation(d, t) EXCEPT !.hasFlashedAtBoundary = TRUE]

\* variant: the flash is started without a note of it
flashAtBoundaryUnmarked(d, t) ==
    IF ~d.hasFlashedAtBoundary /\ ~d.isFlashing
    THEN startFlashAnimation(d, t)
    ELSE d

flashAtBoundary(d, t) ==
    IF ~d.hasFlashedAtBoundary /\ ~d.isFlashing
    THEN [startFlashAnimation(d, t) EXCEPT !.hasFlashedAtBoundary = TRUE]
    ELSE d

----------------------------------------------------------------------------
(* Tick scaling *)

\* variant: the next frame is requested before the progress is tested
animateTransitionRequestingFirst(d, t) ==
    LET elapsed == t - ToNumber(d.animationStartTime)
    IN  IF elapsed < animationDuration
        THEN [d EXCEPT !.rafTransition = @ + 1]
        ELSE [d EXCEPT !.rafTransition = @ + 1,
                       !.animationStartTime = null,
                       !.animatingToState = "null"]

animateTransition(d, t) ==
    LET elapsed == t - ToNumber(d.animationStartTime)
    IN  IF elapsed < animationDuration
        THEN [d EXCEPT !.rafTransition = @ + 1]
        ELSE [d EXCEPT !.animationStartTime = null,
                       !.animatingToState = "null"]

startScalingAnimation(d, toActive, t) ==
    animateTransition(
        [d EXCEPT !.animationStartTime = t,
                  !.animatingToState =
                        IF toActive THEN "active" ELSE "inactive"], t)

\* the statements every value change runs before it changes the value
noteAction(d, t) ==
    LET d1 == [d EXCEPT !.hasFlashedAtBoundary = FALSE,
                        !.lastActionTime = t]
        d2 == IF ~d1.scalingActive
              THEN startScalingAnimation(d1, TRUE, t) ELSE d1
    IN  [d2 EXCEPT !.scalingActive = TRUE]

----------------------------------------------------------------------------
(* Trails *)

handleTrailMovement(d, direction, t) ==
    IF debugSettings.trailMode # "animated" THEN d
    ELSE [d EXCEPT !.lastMovementTime = t,
                   !.isMoving = TRUE,
                   !.movementDirection = direction,
                   !.trailLength = Min(@ + 1, maxTrailLength),
                   !.trailCatchUpAnimation = FALSE,
                   !.trailCatchUpStart = null]

updateTrailCatchUp(d, t) ==
    LET elapsed   == t - ToNumber(d.trailCatchUpStart)
        \* floor((trailLength + 1) * (1 - progress)), progress = min(elapsed / 350, 1)
        remaining == ((d.trailLength + 1)
                        * (trailCatchUpDuration - Min(elapsed, trailCatchUpDuration)))
                     \div trailCatchUpDuration
    IN  IF elapsed >= trailCatchUpDuration
        THEN [d EXCEPT !.trailCatchUpAnimation = FALSE,
                       !.trailCatchUpStart = null,
                       !.trailLength = 0,
                       !.currentTrailLength = 0]
        ELSE [d EXCEPT !.currentTrailLength = Max(0, remaining)]

updateAnimatedTrail(d, t) ==
    IF debugSettings.trailMode # "animated" THEN d
    ELSE LET d1 == IF d.isMoving /\ t - d.lastMovementTime > 0
                   THEN [d EXCEPT !.isMoving = FALSE,
                                  !.trailCatchUpAnimation =
                                        IF d.trailLength > 0 THEN TRUE ELSE @,
                                  !.trailCatchUpStart =
                                        IF d.trailLength > 0 THEN t ELSE @]
                   ELSE d
         IN  IF d1.trailCatchUpAnimation /\ d1.trailCatchUpStart # null
             THEN updateTrailCatchUp(d1, t) ELSE d1

animateTrailDirection(d, t) ==
    IF d.trailDirectionAnimationStart = null THEN d
    ELSE IF t - d.trailDirectionAnimationStart < trailDirectionAnimationDuration
         THEN [d EXCEPT !.rafTrailDirection = @ + 1]
         ELSE [d EXCEPT !.trailDirection = d.trailDirectionTarget,
                        !.trailDirectionAnimationStart = null]

\* within 20% of an end of the active quantity's range (fifths, in integers)
nearBoundary(d) ==
    IF d.tempMode
    THEN \/ 5 * d.temperature <= 5 * minTemp + (maxTemp - minTemp)
         \/ 5 * d.temperature >= 5 * maxTemp - (maxTemp - minTemp)
    ELSE IF d.totalMinutes <= 60
         THEN \/ 5 * d.totalMinutes <= 5 * 1 + 59
              \/ 5 * d.totalMinutes >= 5 * 60 - 59
         ELSE \/ 5 * d.totalMinutes <= 5 * 60 + (maxMinutes - 60)
              \/ 5 * d.totalMinutes >= 5 * maxMinutes - (maxMinutes - 60)

startTrailDirectionAnimation(d, targetDirection, t) ==
    IF d.trailDirection = targetDirection THEN d
    ELSE IF nearBoundary(d)
         THEN [d EXCEPT !.trailDirection = targetDirection,
                        !.trailDirectionTarget = targetDirection]
         ELSE animateTrailDirection(
                [d EXCEPT !.trailDirectionTarget = targetDirection,
                          !.trailDirectionAnimationStart = t], t)

----------------------------------------------------------------------------
(* Setting the time and the temperature *)

\* variant: a single step that does not look at the upper bound first
increaseTimeUnguarded(d, t) ==
    [noteAction(d, t) EXCEPT !.totalMinutes =
                IF @ < 60 THEN @ + 1 ELSE @ + 15]

\* variant: single minutes up to and from 60
increaseTimeMinuteFromSixty(d, t) ==
    IF d.totalMinutes >= maxMinutes THEN flashAtBoundary(d, t)
    ELSE [noteAction(d, t) EXCEPT !.totalMinutes =
                IF @ <= 60 THEN @ + 1 ELSE Min(@ + 15, maxMinutes)]

increaseTime(d, t) ==
    IF d.totalMinutes >= maxMinutes THEN flashAtBoundary(d, t)
    ELSE [noteAction(d, t) EXCEPT !.totalMinutes =
                IF @ < 60 THEN @ + 1 ELSE Min(@ + 15, maxMinutes)]

\* variant: quarter-hour steps from 60 down, with no snap to 59
decreaseTimeQuarterHours(d, t) ==
    IF d.totalMinutes <= 1 THEN flashAtBoundary(d, t)
    ELSE [noteAction(d, t) EXCEPT !.totalMinutes =
                IF @ < 60 THEN Max(@ - 1, 1) ELSE Max(@ - 15, 1)]

\* variant: a quarter-hour step that lands on 60 stays there
decreaseTimeStoppingAtSixty(d, t) ==
    IF d.totalMinutes <= 1 THEN flashAtBoundary(d, t)
    ELSE [noteAction(d, t) EXCEPT !.totalMinutes =
                IF @ <= 60 THEN Max(@ - 1, 1) ELSE Max(@ - 15, 60)]

decreaseTime(d, t) ==
    IF d.totalMinutes <= 1 THEN flashAtBoundary(d, t)
    ELSE [noteAction(d, t) EXCEPT !.totalMinutes =
                IF @ <= 60 THEN Max(@ - 1, 1)
                ELSE IF Max(@ - 15, 60) = 60 THEN 59 ELSE Max(@ - 15, 60)]

\* for (let i = 0; i < accelerationMultiplier; i++) step()
RECURSIVE increaseTimeTimes(_, _, _)
increaseTimeTimes(d, n, t) ==
    IF n = 0 THEN d ELSE increaseTimeTimes(increaseTime(d, t), n - 1, t)

RECURSIVE decreaseTimeTimes(_, _, _)
decreaseTimeTimes(d, n, t) ==
    IF n = 0 THEN d ELSE decreaseTimeTimes(decreaseTime(d, t), n - 1, t)

\* variant: the temperature always steps by five degrees, whatever the
\* multiplier
increaseValueSingleStep(d, t) ==
    IF d.countdownMode THEN d
    ELSE LET a == calculateAcceleration(d, "p", t)
             m == a.accelerationMultiplier
         IN  IF a.tempMode
             THEN IF a.temperature >= maxTemp THEN flashAtBoundary(a, t)
                  ELSE [noteAction(handleTrailMovement(a, "forward", t), t)
                            EXCEPT !.temperature = Min(@ + 5, maxTemp)]
             ELSE IF a.totalMinutes >= maxMinutes THEN flashAtBoundary(a, t)
                  ELSE increaseTimeTimes(
                            handleTrailMovement(a, "forward", t), m, t)

\* variant: the temperature step is not clamped to maxTemp
increaseValueUnclamped(d, t) ==
    IF d.countdownMode THEN d
    ELSE LET a == calculateAcceleration(d, "p", t)
             m == a.accelerationMultiplier
         IN  IF a.tempMode
             THEN IF a.temperature >= maxTemp THEN flashAtBoundary(a, t)
                  ELSE [noteAction(handleTrailMovement(a, "forward", t), t)
                            EXCEPT !.temperature = @ + 5 * m]
             ELSE IF a.totalMinutes >= maxMinutes THEN flashAtBoundary(a, t)
                  ELSE increaseTimeTimes(
                            handleTrailMovement(a, "forward", t), m, t)

increaseValue(d, t) ==
    IF d.countdownMode THEN d
    ELSE LET a == calculateAcceleration(d, "p", t)
             m == a.accelerationMultiplier
         IN  IF a.tempMode
             THEN IF a.temperature >= maxTemp THEN flashAtBoundary(a, t)
                  ELSE [noteAction(handleTrailMovement(a, "forward", t), t)
                            EXCEPT !.temperature = Min(@ + 5 * m, maxTemp)]
             ELSE IF a.totalMinutes >= maxMinutes THEN flashAtBoundary(a, t)
                  ELSE increaseTimeTimes(
                            handleTrailMovement(a, "forward", t), m, t)

\* variant: the temperature steps down whether or not it is at minTemp
decreaseValuePastBound(d, t) ==
    IF d.countdownMode THEN d
    ELSE LET a == calculateAcceleration(d, "o", t)
             m == a.accelerationMultiplier
         IN  IF a.tempMode
             THEN [noteAction(handleTrailMovement(a, "backward", t), t)
                        EXCEPT !.temperature = @ - 5 * m]
             ELSE IF a.totalMinutes <= 1 THEN flashAtBoundary(a, t)
                  ELSE decreaseTimeTimes(
                            handleTrailMovement(a, "backward", t), m, t)

decreaseValue(d, t) ==
    IF d.countdownMode THEN d
    ELSE LET a == calculateAcceleration(d, "o", t)
             m == a.accelerationMultiplier
         IN  IF a.tempMode
             THEN IF a.temperature <= minTemp THEN flashAtBoundary(a, t)
                  ELSE [noteAction(handleTrailMovement(a, "backward", t), t)
                            EXCEPT !.temperature = Max(@ - 5 * m, minTemp)]
             ELSE IF a.totalMinutes <= 1 THEN flashAtBoundary(a, t)
                  ELSE decreaseTimeTimes(
                            handleTrailMovement(a, "backward", t), m, t)

\* variant: a press always selects Time mode
toggleModeOneWay(d) ==
    IF d.countdownMode THEN d ELSE [d EXCEPT !.tempMode = FALSE]

toggleMode(d) ==
    IF d.countdownMode THEN d ELSE [d EXCEPT !.tempMode = ~@]

----------------------------------------------------------------------------
(* The cook cycle *)

\* variant: the end of the ring fill does not stamp the countdown's start
animateRingFillWithoutStart(d, t) ==
    LET elapsed == t - ToNumber(d.ringFillStartTime)
    IN  IF elapsed < ringFillDuration
        THEN [d EXCEPT !.rafRingFill = @ + 1]
        ELSE [d EXCEPT !.ringFillAnimation = FALSE,
                       !.countdownMode = TRUE,
                       !.countdownDuration = d.totalMinutes * 60,
                       !.preheatPhase = debugSettings.preheatEnabled]

animateRingFill(d, t) ==
    LET elapsed == t - ToNumber(d.ringFillStartTime)
    IN  IF elapsed < ringFillDuration
        THEN [d EXCEPT !.rafRingFill = @ + 1]
        ELSE [d EXCEPT !.ringFillAnimation = FALSE,
                       !.countdownMode = TRUE,
                       !.countdownDuration = d.totalMinutes * 60,
                       !.countdownStartTime = t,
                       !.preheatPhase = debugSettings.preheatEnabled]

startRingFillAnimation(d, t) ==
    animateRingFill([d EXCEPT !.ringFillAnimation = TRUE,
                              !.ringFillStartTime = t], t)

startCooking(d, t) ==
    IF d.countdownMode THEN d ELSE startRingFillAnimation(d, t)

\* variant: completion leaves totalMinutes as it was set
updateCountdownKeepingMinutes(d, t) ==
    IF ~d.countdownMode \/ d.countdownStartTime = null THEN d
    ELSE LET elapsedMs == t - d.countdownStartTime
         IN  IF /\ d.preheatPhase
                /\ debugSettings.preheatEnabled
                /\ elapsedMs >= preheatSeconds * 1000
             THEN [d EXCEPT !.preheatPhase = FALSE,
                            !.countdownStartTime = t]
             ELSE IF /\ ~d.preheatPhase \/ ~debugSettings.preheatEnabled
                     /\ elapsedMs >= d.countdownDuration * 1000
                  THEN [d EXCEPT !.countdownMode = FALSE,
                                 !.cookingComplete = TRUE]
                  ELSE d

\* variant: the tick that ends the preheat goes on to test the countdown
updateCountdownFallingThrough(d, t) ==
    IF ~d.countdownMode \/ d.countdownStartTime = null THEN d
    ELSE LET elapsedMs == t - d.countdownStartTime
             heated == /\ d.preheatPhase
                       /\ debugSettings.preheatEnabled
                       /\ elapsedMs >= preheatSeconds * 1000
             d1 == IF heated
                   THEN [d EXCEPT !.preheatPhase = FALSE,
                                  !.countdownStartTime = t]
                   ELSE d
         IN  IF /\ ~d1.preheatPhase \/ ~debugSettings.preheatEnabled
                /\ elapsedMs >= d.countdownDuration * 1000
             THEN [d1 EXCEPT !.countdownMode = FALSE,
                             !.cookingComplete = TRUE,
                             !.totalMinutes = 0]
             ELSE d1

updateCountdown(d, t) ==
    IF ~d.countdownMode \/ d.countdownStartTime = null THEN d
    ELSE LET elapsedMs == t - d.countdownStartTime
         IN  IF /\ d.preheatPhase
                /\ debugSettings.preheatEnabled
                /\ elapsedMs >= preheatSeconds * 1000
             THEN [d EXCEPT !.preheatPhase = FALSE,
                            !.countdownStartTime = t]
             ELSE IF /\ ~d.preheatPhase \/ ~debugSettings.preheatEnabled
                     /\ elapsedMs >= d.countdownDuration * 1000
                  THEN [d EXCEPT !.countdownMode = FALSE,
                                 !.cookingComplete = TRUE,
                                 !.totalMinutes = 0]
                  ELSE d

\* variant: the selection stops at the first and the last option
navigateButtonsWithoutWrap(d, direction) ==
    [d EXCEPT !.selectedButton = Max(0, Min(1, @ + direction))]

navigateButtons(d, direction) ==
    [d EXCEPT !.selectedButton = (@ + direction + 2) % 2]

\* variant: the trail keeps its length
restartKeepingTrail(d, t) ==
    [d EXCEPT !.totalMinutes = 10,
              !.temperature = 400,
              !.tempMode = TRUE,
              !.lastActionTime = t,
              !.scalingActive = FALSE,
              !.keyPressHistory = <<>>,
              !.accelerationMultiplier = 1,
              !.rapidMode = FALSE,
              !.lastKeyPressed = "null",
              !.movementDirection = "null",
              !.isMoving = FALSE,
              !.currentTrailLength = 0,
              !.trailCatchUpAnimation = FALSE,
              !.trailDirection = "normal",
              !.trailDirectionTarget = "normal",
              !.trailDirectionAnimationStart = null,
              !.animationStartTime = null,
              !.animatingToState = "null",
              !.ringFillAnimation = FALSE,
              !.ringFillStartTime = null,
              !.countdownMode = FALSE,
              !.countdownStartTime = null,
              !.countdownDuration = 0,
              !.preheatPhase = FALSE,
              !.cookingComplete = FALSE,
              !.selectedButton = 0,
              !.isFlashing = FALSE,
              !.flashStartTime = null,
              !.flashVisible = TRUE,
              !.hasFlashedAtBoundary = FALSE]

restart(d, t) ==
    [d EXCEPT !.totalMinutes = 10,
              !.temperature = 400,
              !.tempMode = TRUE,
              !.lastActionTime = t,
              !.scalingActive = FALSE,
              !.keyPressHistory = <<>>,
              !.accelerationMultiplier = 1,
              !.rapidMode = FALSE,
              !.lastKeyPressed = "null",
              !.movementDirection = "null",
              !.isMoving = FALSE,
              !.trailLength = 0,
              !.currentTrailLength = 0,
              !.trailCatchUpAnimation = FALSE,
              !.trailDirection = "normal",
              !.trailDirectionTarget = "normal",
              !.trailDirectionAnimationStart = null,
              !.animationStartTime = null,
              !.animatingToState = "null",
              !.ringFillAnimation = FALSE,
              !.ringFillStartTime = null,
              !.countdownMode = FALSE,
              !.countdownStartTime = null,
              !.countdownDuration = 0,
              !.preheatPhase = FALSE,
              !.cookingComplete = FALSE,
              !.selectedButton = 0,
              !.isFlashing = FALSE,
              !.flashStartTime = null,
              !.flashVisible = TRUE,
              !.hasFlashedAtBoundary = FALSE]

----------------------------------------------------------------------------
(* Options *)

\* a value a page may pass as an option: none, a number or a string
Absent == [type |-> "undefined", number |-> 0, text |-> <<>>]
NumberOption(n) == [type |-> "number", number |-> n, text |-> <<>>]
StringOption(chars) == [type |-> "string", number |-> 0, text |-> chars]

----------------------------------------------------------------------------
(* SegmentRange (unnamed/part_001) *)

DEFAULT_MIN_SEGMENTS == 2
DEFAULT_MAX_SEGMENTS == 30
DARKNESS_MAX_SEGMENTS == 10

clamp(value, min, max) == Max(min, Min(max, value))

\* The numbers handed to SegmentRange are held in halves: 5 is 2.5.
Whole(n) == 2 * n

\* Math.round, which rounds a half up: floor(x + 1/2)
MathRound(halves) == (halves + 1) \div 2

\* x || fallback, for a number x
OrElse(x, fallback) == IF x = 0 THEN fallback ELSE x

\* typeof option === 'number' ? option : fallback
NumberOr(option, fallback) ==
    IF option.type = "number" THEN option.number ELSE fallback

setValue(r, value, suppressEvent, forceUpdate) ==
    LET clamped == clamp(MathRound(value), 1, r.segmentCount)
    IN  IF ~forceUpdate /\ clamped = r.value THEN r
        ELSE [r EXCEPT !.value = clamped,
                       !.notified =
                            IF ~suppressEvent /\ r.onChange THEN @ + 1 ELSE @]

\* variant: a changed number of segments leaves the value as it is
setSegmentsKeepingValue(r, count, preserveValue, suppressEvent) ==
    LET normalized == clamp(MathRound(count), r.minSegments, r.maxSegments)
        r1 == [r EXCEPT !.segmentCount = normalized]
        r2 == IF preserveValue THEN r1
              ELSE setValue(r1, Whole(1), TRUE, TRUE)
    IN  IF ~suppressEvent /\ r.value # r2.value /\ r.onChange
        THEN [r2 EXCEPT !.notified = @ + 1] ELSE r2

setSegments(r, count, preserveValue, suppressEvent) ==
    LET normalized == clamp(MathRound(count), r.minSegments, r.maxSegments)
        r1 == [r EXCEPT !.segmentCount = normalized]
        r2 == IF preserveValue
              THEN [r1 EXCEPT !.value = clamp(@, 1, normalized)]
              ELSE setValue(r1, Whole(1), TRUE, TRUE)
    IN  IF ~suppressEvent /\ r.value # r2.value /\ r.onChange
        THEN [r2 EXCEPT !.notified = @ + 1] ELSE r2

increment(r) ==
    IF r.value >= r.segmentCount THEN r
    ELSE setValue(r, Whole(r.value + 1), FALSE, FALSE)

decrement(r) ==
    IF r.value <= 1 THEN r
    ELSE setValue(r, Whole(r.value - 1), FALSE, FALSE)

\* the constructor; notified counts the calls of options.onChange
SegmentRange(options) ==
    LET darkness == options.variant = "darkness"
        minSegmentsOption ==
            NumberOr(options.minSegments, Whole(DEFAULT_MIN_SEGMENTS))
        maxSegmentsOption ==
            NumberOr(options.maxSegments, Whole(DEFAULT_MAX_SEGMENTS))
        minSegments ==
            IF darkness
            THEN clamp(OrElse(MathRound(minSegmentsOption),
                              DEFAULT_MIN_SEGMENTS),
                       2, DARKNESS_MAX_SEGMENTS)
            ELSE clamp(OrElse(MathRound(minSegmentsOption),
                              DEFAULT_MIN_SEGMENTS),
                       DEFAULT_MIN_SEGMENTS, DEFAULT_MAX_SEGMENTS)
        maxSegments ==
            IF darkness
            THEN clamp(OrElse(MathRound(maxSegmentsOption),
                              DARKNESS_MAX_SEGMENTS),
                       minSegments, DARKNESS_MAX_SEGMENTS)
            ELSE clamp(OrElse(MathRound(maxSegmentsOption),
                              DEFAULT_MAX_SEGMENTS),
                       minSegments, DEFAULT_MAX_SEGMENTS)
        requestedSegments ==
            IF options.segments.type = "number"
            THEN MathRound(options.segments.number) ELSE minSegments
        segmentCount == clamp(requestedSegments, minSegments, maxSegments)
        requestedValue ==
            IF options.value.type = "number"
            THEN MathRound(options.value.number) ELSE 1
        fields == [ variant      |-> IF darkness THEN "darkness" ELSE "default",
                    minSegments  |-> minSegments,
                    maxSegments  |-> maxSegments,
                    segmentCount |-> segmentCount,
                    value        |-> clamp(requestedValue, 1, segmentCount),
                    onChange     |-> options.onChange,
                    notified     |-> 0 ]
        sized == setSegments(fields, Whole(fields.segmentCount), TRUE, TRUE)
    IN  setValue(sized, Whole(sized.value), TRUE, TRUE)

\* a page that passes no options
NoOptions ==
    [ variant |-> "default", minSegments |-> Absent, maxSegments |-> Absent,
      segments |-> Absent, value |-> Absent, onChange |-> FALSE ]

----------------------------------------------------------------------------
(* Input *)

Keys == {"o", "p", "q", "1", "r"}

\* an event whose key is missing or empty: !event.key
NoKey == ""

\* String.prototype.toLowerCase on the keys the events carry
toLowerCase(key) ==
    CASE key = "O" -> "o"
      [] key = "P" -> "p"
      [] key = "Q" -> "q"
      [] key = "R" -> "r"
      [] key = "X" -> "x"
      [] OTHER     -> key

\* handleKeydown comparing event.key as it came, without toLowerCase
handleKeydownCaseSensitive(d, key, t) ==
    IF key = NoKey THEN d
    ELSE CASE key = "p" ->
                IF d.cookingComplete THEN navigateButtons(d, 1)
                ELSE increaseValue(
                        IF debugSettings.trailMode = "stay"
                        THEN startTrailDirectionAnimation(d, "normal", t)
                        ELSE d, t)
          [] key = "o" ->
                IF d.cookingComplete THEN navigateButtons(d, -1)
                ELSE decreaseValue(
                        IF debugSettings.trailMode = "stay"
                        THEN startTrailDirectionAnimation(d, "opposite", t)
                        ELSE d, t)
          [] key = "r" -> restart(d, t)
          [] key = "q" -> toggleMode(d)
          [] key = "1" -> startCooking(d, t)
          [] OTHER     -> d

handleKeydown(d, eventKey, t) ==
    IF eventKey = NoKey THEN d
    ELSE LET key == toLowerCase(eventKey)
         IN  CASE key = "p" ->
                    IF d.cookingComplete THEN navigateButtons(d, 1)
                    ELSE increaseValue(
                            IF debugSettings.trailMode = "stay"
                            THEN startTrailDirectionAnimation(d, "normal", t)
                            ELSE d, t)
              [] key = "o" ->
                    IF d.cookingComplete THEN navigateButtons(d, -1)
                    ELSE decreaseValue(
                            IF debugSettings.trailMode = "stay"
                            THEN startTrailDirectionAnimation(d, "opposite", t)
                            ELSE d, t)
              [] key = "r" -> restart(d, t)
              [] key = "q" -> toggleMode(d)
              [] key = "1" -> startCooking(d, t)
              [] OTHER     -> d

\* variant: scaling is ended by every tick, however recent the last action
updateLoopWithoutDelay(d, t) ==
    IF ~debugSettings.autoReset THEN d
    ELSE updateAnimatedTrail(
            [(IF d.scalingActive
              THEN startScalingAnimation(d, FALSE, t) ELSE d)
                EXCEPT !.scalingActive = FALSE], t)

\* the 100 ms housekeeping interval of startUpdateLoop
updateLoop(d, t) ==
    IF ~debugSettings.autoReset THEN d
    ELSE LET d1 == IF t - d.lastActionTime > debugSettings.resetDelayMs
                   THEN [(IF d.scalingActive
                          THEN startScalingAnimation(d, FALSE, t) ELSE d)
                            EXCEPT !.scalingActive = FALSE]
                   ELSE d
         IN  updateAnimatedTrail(d1, t)

----------------------------------------------------------------------------
(* The state machine *)

Fits(d) ==
    /\ d.rafRingFill <= MaxFrames
    /\ d.rafFlash <= MaxFrames
    /\ d.rafTransition <= MaxFrames
    /\ d.rafTrailDirection <= MaxFrames

NoEvent == [key |-> "none", before |-> Constructed(Epoch)]

\* a keydown event reaches handleKeydown
KeyDown(key) ==
    /\ inputs < MaxInputs
    /\ Fits(handleKeydown(dial, key, now))
    /\ dial' = handleKeydown(dial, key, now)
    /\ inputs' = inputs + 1
    /\ event' = [key |-> key, before |-> dial]
    /\ UNCHANGED <<debugSettings, now, range>>

RotateIncrease == KeyDown("p")
RotateDecrease == KeyDown("o")
Press          == KeyDown("q")
Aux            == KeyDown("1")
Reset          == KeyDown("r")

\* a callback of the browser (an animation frame or an interval) has run
Callback(d) ==
    /\ Fits(d)
    /\ dial' = d
    /\ event' = NoEvent
    /\ UNCHANGED <<debugSettings, now, inputs, range>>

\* the browser runs one callback registered with requestAnimationFrame
RingFillFrame ==
    /\ dial.rafRingFill > 0
    /\ Callback(animateRingFill([dial EXCEPT !.rafRingFill = @ - 1], now))

FlashFrame ==
    /\ dial.rafFlash > 0
    /\ Callback(animateFlash([dial EXCEPT !.rafFlash = @ - 1], now))

TransitionFrame ==
    /\ dial.rafTransition > 0
    /\ Callback(animateTransition([dial EXCEPT !.rafTransition = @ - 1], now))

TrailDirectionFrame ==
    /\ dial.rafTrailDirection > 0
    /\ Callback(animateTrailDirection(
                    [dial EXCEPT !.rafTrailDirection = @ - 1], now))

\* the setInterval callbacks of startUpdateLoop
HousekeepingInterval == Callback(updateLoop(dial, now))

CountdownInterval ==
    /\ dial.countdownMode
    /\ Callback(updateCountdown(dial, now))

\* time passes
Tick ==
    /\ now + TickMs <= Epoch + MaxTicks * TickMs
    /\ now' = now + TickMs
    /\ event' = NoEvent
    /\ UNCHANGED <<dial, debugSettings, inputs, range>>

Sleep ==
    /\ now + SleepMs <= Epoch + MaxTicks * TickMs + MaxSleeps * SleepMs
    /\ now' = now + SleepMs
    /\ event' = NoEvent
    /\ UNCHANGED <<dial, debugSettings, inputs, range>>

----------------------------------------------------------------------------
(* Initial states *)

\* The dial right after a rotate event, handled at Epoch long after any
\* earlier input, has set the active quantity: the other quantity still has
\* its default, the press is the only one in the window, and the scaling
\* transition it started (none if auto-reset is off: scaling never ended) is
\* in flight.  In 'animated' trail mode the trail has grown by the move (it
\* had been caught up before if auto-reset is on, and is full otherwise); in
\* 'stay' mode the direction is that of the key, as it is wherever the value
\* is within 20% of an end of its range (the only values used in that mode).
AfterRotate(settings, temp, minutes, mode, key) ==
    LET animated == settings.trailMode = "animated"
        stay     == settings.trailMode = "stay"
    IN  [Constructed(Epoch) EXCEPT
            !.temperature = temp,
            !.totalMinutes = minutes,
            !.tempMode = mode,
            !.lastKeyPressed = key,
            !.keyPressHistory = <<Epoch>>,
            !.rapidMode = settings.rapidModeThreshold <= 1,
            !.accelerationMultiplier =
                IF settings.rapidModeThreshold <= 1
                THEN maxAcceleration ELSE 1,
            !.lastActionTime = Epoch,
            !.scalingActive = TRUE,
            !.animationStartTime = IF settings.autoReset THEN Epoch ELSE null,
            !.animatingToState =
                IF settings.autoReset THEN "active" ELSE "null",
            !.rafTransition = IF settings.autoReset THEN 1 ELSE 0,
            !.trailDirection =
                IF stay /\ key = "o" THEN "opposite" ELSE "normal",
            !.trailDirectionTarget =
                IF stay /\ key = "o" THEN "opposite" ELSE "normal",
            !.isMoving = animated,
            !.movementDirection =
                IF animated
                THEN (IF key = "p" THEN "forward" ELSE "backward")
                ELSE "null",
            !.trailLength =
                IF animated
                THEN (IF settings.autoReset THEN 1 ELSE maxTrailLength)
                ELSE 0,
            !.currentTrailLength =
                IF animated /\ settings.autoReset THEN 0 ELSE undefined]

\* the values rotate events can set
Temperatures == {minTemp + 5 * k : k \in 0 .. (maxTemp - minTemp) \div 5}
Minutes == (1 .. 59) \cup {60 + 15 * k : k \in 0 .. (maxMinutes - 60) \div 15}

\* the values a rotate event with that key can leave behind
TemperaturesAfter(key) ==
    IF key = "p" THEN Temperatures \ {minTemp} ELSE Temperatures \ {maxTemp}
MinutesAfter(key) ==
    IF key = "p" THEN Minutes \ {1} ELSE Minutes \ {60, maxMinutes}

InitWith(settingsSet, handled) ==
    /\ debugSettings \in settingsSet
    /\ now = Epoch
    /\ inputs = handled
    /\ event = NoEvent
    /\ range = SegmentRange(NoOptions)

----------------------------------------------------------------------------
(* Spec: one dial through its cook cycles *)

Settings ==
    { [DefaultDebugSettings EXCEPT !.preheatEnabled = ph,
                                   !.rapidModeThreshold = 2,
                                   !.autoReset = FALSE] :
        ph \in BOOLEAN }

\* as constructed; or with the temperature turned up to its maximum, or to
\* ten degrees under it; or with the time turned down to one minute
Dials(settings) ==
    { Constructed(Epoch),
      AfterRotate(settings, maxTemp, 10, TRUE, "p"),
      AfterRotate(settings, maxTemp - 10, 10, TRUE, "p"),
      AfterRotate(settings, 400, 1, FALSE, "o") }

Init ==
    /\ InitWith(Settings, 0)
    /\ dial \in Dials(debugSettings)

Next ==
    \/ RotateIncrease
    \/ RotateDecrease
    \/ Press
    \/ Aux
    \/ Reset
    \/ RingFillFrame
    \/ FlashFrame
    \/ TransitionFrame
    \/ HousekeepingInterval
    \/ CountdownInterval
    \/ Tick
    \/ Sleep

Spec == Init /\ [][Next]_vars

----------------------------------------------------------------------------
(* SpecSetup: rotate, press and reset events on every value of the dial in  *)
(* Setup                                                                   *)

SetupSettings ==
    { [DefaultDebugSettings EXCEPT !.rapidModeThreshold = 2,
                                   !.autoReset = FALSE] }

SetupDials(settings) ==
    { AfterRotate(settings, temp, 10, TRUE, key) :
        <<temp, key>> \in { <<temp, key>> \in Temperatures \X {"o", "p"} :
                                temp \in TemperaturesAfter(key) } }
    \cup
    { AfterRotate(settings, 400, minutes, FALSE, key) :
        <<minutes, key>> \in { <<minutes, key>> \in Minutes \X {"o", "p"} :
                                minutes \in MinutesAfter(key) } }

\* the rotate event that set the value is the one event handled so far
InitSetup ==
    /\ InitWith(SetupSettings, 1)
    /\ dial \in SetupDials(debugSettings)

NextSetup ==
    \/ RotateIncrease
    \/ RotateDecrease
    \/ Press
    \/ Reset
    \/ FlashFrame
    \/ TransitionFrame
    \/ HousekeepingInterval
    \/ Tick

SpecSetup == InitSetup /\ [][NextSetup]_vars

----------------------------------------------------------------------------
(* SpecTrail: the cook cycles of a dial that draws a trail *)

TrailSettings ==
    { [DefaultDebugSettings EXCEPT !.rapidModeThreshold = 2,
                                   !.autoReset = FALSE,
                                   !.trailMode = tm] :
        tm \in {"stay", "animated"} }

TrailDials(settings) ==
    { Constructed(Epoch),
      AfterRotate(settings, maxTemp, 10, TRUE, "p") }

InitTrail ==
    /\ InitWith(TrailSettings, 0)
    /\ dial \in TrailDials(debugSettings)

NextTrail ==
    \/ Next
    \/ TrailDirectionFrame

SpecTrail == InitTrail /\ [][NextTrail]_vars

----------------------------------------------------------------------------
(* The lifecycle *)

\* the lifecycle changes the dial is meant to make without a reset
AllowedTransitions ==
    { <<"Setup", "Starting">>,
      <<"Starting", IF debugSettings.preheatEnabled
                    THEN "Preheat" ELSE "Cooking">>,
      <<"Preheat", "Cooking">>,
      <<"Cooking", "Complete">> }

\* C1: every change of lifecycle that is not the effect of a reset event is
\* Setup->Starting made by an Aux event, Starting->Preheat with preheat
\* enabled, Starting->Cooking with preheat disabled, Preheat->Cooking or
\* Cooking->Complete; and with preheat disabled the lifecycle is never Preheat.
C1_OnlyOrderedTransitions ==
    [][ /\ ~debugSettings.preheatEnabled => Lifecycle(dial') # "Preheat"
        /\ (Lifecycle(dial') # Lifecycle(dial) /\ event'.key # "r") =>
              /\ <<Lifecycle(dial), Lifecycle(dial')>> \in AllowedTransitions
              /\ Lifecycle(dial) = "Setup" => event'.key = "1" ]_vars

\* C3: while the lifecycle is Setup, only an Aux event ends Setup or sets a
\* countdown: no callback scheduled before a reset does.
C3_SetupUntilAux ==
    [][ (Lifecycle(dial) = "Setup" /\ ~dial.countdownMode /\ event'.key # "1")
            => (Lifecycle(dial') = "Setup" /\ ~dial'.countdownMode) ]_vars

\* C4: once the lifecycle is Complete, no event but reset and no callback
\* changes the lifecycle, starts the ring-fill animation or starts a countdown.
C4_CompleteAbsorbing ==
    [][ (Lifecycle(dial) = "Complete" /\ event'.key # "r") =>
            /\ Lifecycle(dial') = "Complete"
            /\ dial'.ringFillAnimation = dial.ringFillAnimation
            /\ dial'.ringFillStartTime = dial.ringFillStartTime
            /\ dial'.countdownMode = dial.countdownMode
            /\ dial'.countdownStartTime = dial.countdownStartTime ]_vars

\* reached: a frame scheduled before a reset has ended Setup
C1_StaleFrameEndsSetup ==
    /\ event.key = "none"
    /\ Lifecycle(dial) \in {"Preheat", "Cooking"}
    /\ inputs = 2
    /\ now = Epoch

\* reached: the lifecycle is Complete and an Aux event has started a ring fill
C4_AuxInComplete ==
    /\ event.key = "1"
    /\ Lifecycle(event.before) = "Complete"
    /\ dial.ringFillAnimation

----------------------------------------------------------------------------
(* Reset *)

\* the part of the state a reset is to restore
ResetView(d) ==
    [ temperature      |-> d.temperature,
      totalMinutes     |-> d.totalMinutes,
      tempMode         |-> d.tempMode,
      lifecycle        |-> Lifecycle(d),
      countdownMode    |-> d.countdownMode,
      countdownStartTime |-> d.countdownStartTime,
      countdownDuration |-> d.countdownDuration,
      preheatPhase     |-> d.preheatPhase,
      selectedButton   |-> d.selectedButton,
      keyPressHistory  |-> d.keyPressHistory,
      rapidMode        |-> d.rapidMode,
      accelerationMultiplier |-> d.accelerationMultiplier,
      lastKeyPressed   |-> d.lastKeyPressed,
      trailDirection   |-> d.trailDirection,
      trailLength      |-> d.trailLength ]

\* C2: right after a reset event, whatever the state it was handled in, the
\* dial has the values of a newly constructed one: temperature 400,
\* totalMinutes 10, Temperature mode, lifecycle Setup, no countdown, the first
\* completion option selected, an empty press history with rapid mode off and
\* no last key, and a trail of direction normal and length 0.
C2_ResetRestoresDefaults ==
    event.key = "r" =>
        /\ ResetView(dial) = ResetView(Constructed(now))
        /\ dial.temperature = 400
        /\ dial.totalMinutes = 10
        /\ dial.tempMode
        /\ Lifecycle(dial) = "Setup"
        /\ dial.trailLength = 0

\* reached: a reset during the ring fill of a dial that had been set away
\* from its defaults and had drawn a trail
C2_ResetWhileStarting ==
    /\ event.key = "r"
    /\ Lifecycle(event.before) = "Starting"
    /\ event.before.rafRingFill > 0
    /\ event.before.temperature # 400
    /\ event.before.trailLength > 0
    /\ event.before.keyPressHistory # <<>>

----------------------------------------------------------------------------
(* The bounds of the temperature and of the time *)

\* C5: in every reachable state the temperature is within [300, 480] and is
\* 300 plus a multiple of 5.
C5_TemperatureInRange ==
    /\ dial.temperature \in minTemp .. maxTemp
    /\ (dial.temperature - minTemp) % 5 = 0

\* reached: a rapid-mode step of 20 has been cut short at 480
C5_RapidStepClamped ==
    /\ event.key = "p"
    /\ event.before.tempMode
    /\ dial.accelerationMultiplier = maxAcceleration
    /\ event.before.temperature < maxTemp
    /\ event.before.temperature + 5 * maxAcceleration > maxTemp
    /\ dial.temperature = maxTemp

\* C6: a rotate event handled in Time mode, from any totalMinutes in
\* [1, 4320] and with a multiplier of 1 or 4, leaves totalMinutes in [1, 4320].
C6_RotateKeepsMinutesInRange ==
    ( /\ event.key \in {"o", "p"}
      /\ ~event.before.tempMode
      /\ event.before.totalMinutes \in 1 .. maxMinutes
      /\ dial.accelerationMultiplier \in {1, maxAcceleration} )
        => dial.totalMinutes \in 1 .. maxMinutes

\* reached: a rapid-mode increase of four steps has stopped at 4320 after its
\* first step
C6_RapidStepsStopAtMax ==
    /\ event.key = "p"
    /\ ~event.before.tempMode
    /\ dial.accelerationMultiplier = maxAcceleration
    /\ event.before.totalMinutes = maxMinutes - 15
    /\ dial.totalMinutes = maxMinutes

\* C7 as stated: in every reachable state of every lifecycle phase,
\* totalMinutes is within [1, 4320].
C7_MinutesInRangeInEveryPhase ==
    dial.totalMinutes \in 1 .. maxMinutes

\* C7: totalMinutes is within [1, 4320] in Setup, Starting, Preheat and
\* Cooking, and is 0 in Complete.
C7_MinutesInRangeUntilComplete ==
    IF Lifecycle(dial) = "Complete"
    THEN dial.totalMinutes = 0
    ELSE dial.totalMinutes \in 1 .. maxMinutes

\* reached: the countdown has run out
C7_CountdownComplete ==
    /\ Lifecycle(dial) = "Complete"
    /\ dial.totalMinutes = 0
    /\ ~dial.countdownMode

\* C8: in Setup and Time mode, a decrease of multiplier 1 at totalMinutes 60
\* gives 59.
C8_DecreaseAtSixty ==
    ( /\ event.key = "o"
      /\ Lifecycle(event.before) = "Setup"
      /\ ~event.before.tempMode
      /\ event.before.totalMinutes = 60
      /\ dial.accelerationMultiplier = 1 )
        => dial.totalMinutes = 59

\* reached: that decrease
C8_DecreasedFromSixty ==
    /\ event.key = "o"
    /\ Lifecycle(event.before) = "Setup"
    /\ ~event.before.tempMode
    /\ event.before.totalMinutes = 60
    /\ dial.accelerationMultiplier = 1
    /\ dial.totalMinutes = 59

----------------------------------------------------------------------------
(* Rotating at a bound *)

\* the last event was a rotate, in Setup, at the bound of the active quantity
\* that lies in its direction
RotateAtBound ==
    /\ Lifecycle(event.before) = "Setup"
    /\ \/ /\ event.key = "p"
          /\ IF event.before.tempMode
             THEN event.before.temperature = maxTemp
             ELSE event.before.totalMinutes = maxMinutes
       \/ /\ event.key = "o"
          /\ IF event.before.tempMode
             THEN event.before.temperature = minTemp
             ELSE event.before.totalMinutes = 1

\* C9: a rotate event in Setup at the bound of the active quantity leaves
\* temperature, totalMinutes, mode and lifecycle as they were.
C9_RotateAtBoundChangesNothing ==
    RotateAtBound =>
        /\ dial.temperature = event.before.temperature
        /\ dial.totalMinutes = event.before.totalMinutes
        /\ dial.tempMode = event.before.tempMode
        /\ Lifecycle(dial) = Lifecycle(event.before)

\* reached: a rapid-mode decrease at 300 degrees
C9_RapidDecreaseAtMinTemp ==
    /\ RotateAtBound
    /\ event.key = "o"
    /\ event.before.tempMode
    /\ dial.accelerationMultiplier = maxAcceleration

\* C10 as stated: right after every rotate event in Setup at the bound of the
\* active quantity, isFlashing is true.
C10_EveryBoundHitFlashes ==
    RotateAtBound => dial.isFlashing

\* C10: right after a rotate event in Setup at the bound of the active
\* quantity, isFlashing is true exactly if a flash was running already or
\* none has been started since the value last moved.
C10_BoundHitFlashesOnce ==
    RotateAtBound =>
        (dial.isFlashing <=>
            (event.before.isFlashing \/ ~event.before.hasFlashedAtBoundary))

\* reached: a second attempt at the bound, made after the flash of the first
\* has ended, has not flashed
C10_SecondHitSilent ==
    /\ RotateAtBound
    /\ event.before.hasFlashedAtBoundary
    /\ ~event.before.isFlashing
    /\ ~dial.isFlashing

----------------------------------------------------------------------------
(* SpecBurst: bursts of rotate events on a dial with the default settings *)

\* the gap between the rotate events of a burst
BurstPace == 60
\* rotate events per run
MaxPresses == 32
\* the time a run spans
MaxBurstMs == 4000

\* the gaps explored: that of a burst, one just over the decay time and one
\* just over the window
BurstGaps == {BurstPace, rapidModeDecayTime + 1, rapidModeWindow + 1}

\* a keydown event reaches handleKeydown gap ms after the last one
RotateAfter(gap, key) ==
    /\ inputs < MaxPresses
    /\ now + gap <= Epoch + MaxBurstMs
    /\ Fits(handleKeydown(dial, key, now + gap))
    /\ now' = now + gap
    /\ dial' = handleKeydown(dial, key, now + gap)
    /\ inputs' = inputs + 1
    /\ event' = [key |-> key, before |-> dial]
    /\ UNCHANGED <<debugSettings, range>>

\* a run is a burst of increases and then a burst of decreases, each with
\* pauses
BurstIncrease ==
    /\ dial.lastKeyPressed # "o"
    /\ RotateAfter(BurstPace, "p")
BurstDecrease == RotateAfter(BurstPace, "o")
LateIncrease ==
    /\ dial.lastKeyPressed # "o"
    /\ \E gap \in BurstGaps \ {BurstPace} : RotateAfter(gap, "p")
LateDecrease == \E gap \in BurstGaps \ {BurstPace} : RotateAfter(gap, "o")

InitBurst ==
    /\ InitWith({DefaultDebugSettings}, 0)
    /\ dial = Constructed(Epoch)

NextBurst ==
    \/ BurstIncrease
    \/ BurstDecrease
    \/ LateIncrease
    \/ LateDecrease

SpecBurst == InitBurst /\ [][NextBurst]_vars

----------------------------------------------------------------------------
(* Acceleration: entering rapid mode *)

\* the step is a rotate event handled by the acceleration engine
RotateStep ==
    /\ inputs' = inputs + 1
    /\ event'.key \in {"o", "p"}
    /\ ~dial.countdownMode
    /\ ~dial.cookingComplete

\* the rotate event of the step begins a burst: it is the first event, or
\* the first in its direction, or comes more than the decay time after the
\* event before it
BurstBegins ==
    \/ dial.lastKeyPressed # event'.key
    \/ dial.keyPressHistory = <<>>
    \/ now' - dial.keyPressHistory[Len(dial.keyPressHistory)]
            > rapidModeDecayTime

\* C11: with the default threshold 30, the calls of a same-direction burst
\* (gaps of at most 600 ms) made while the window holds fewer than 30 entries
\* return multiplier 1 -- the call that begins the burst, and every later call
\* of it made in normal mode -- and every later call of the burst at which the
\* window holds at least 30 entries leaves rapid mode on and returns 4.
C11_RapidFromThirtiethCall ==
    [][ (RotateStep /\ debugSettings.rapidModeThreshold
                            = DefaultRapidModeThreshold) =>
          LET held == Len(dial'.keyPressHistory)
          IN  /\ (BurstBegins /\ held < DefaultRapidModeThreshold)
                    => dial'.accelerationMultiplier = 1
              /\ (~BurstBegins /\ ~dial.rapidMode
                               /\ held < DefaultRapidModeThreshold)
                    => dial'.accelerationMultiplier = 1
              /\ (~BurstBegins /\ held >= DefaultRapidModeThreshold)
                    => /\ dial'.rapidMode
                       /\ dial'.accelerationMultiplier = maxAcceleration
       ]_vars

\* reached: the first event after a pause longer than the window is handled
\* in rapid mode
C11_RapidAfterLongPause ==
    /\ event.key = "p"
    /\ event.before.rapidMode
    /\ dial.keyPressHistory = <<now>>
    /\ dial.accelerationMultiplier = maxAcceleration

\* the last event was a rotate handled by the acceleration engine in the
\* direction opposite to that of the rotate before it
Reversal ==
    /\ event.key \in {"o", "p"}
    /\ ~event.before.countdownMode
    /\ ~event.before.cookingComplete
    /\ event.before.lastKeyPressed \in {"o", "p"} \ {event.key}

\* C12: with the default threshold, a rotate event in the direction opposite
\* to the previous one returns multiplier 1 and leaves rapid mode off and a
\* window that holds the timestamp of that call only, whether or not rapid
\* mode was on.
C12_ReversalClearsWindow ==
    (Reversal /\ debugSettings.rapidModeThreshold = DefaultRapidModeThreshold)
        => /\ dial.accelerationMultiplier = 1
           /\ ~dial.rapidMode
           /\ dial.keyPressHistory = <<now>>
           /\ dial.lastKeyPressed = event.key

\* reached: a reversal out of rapid mode with a full window
C12_ReversalInRapidMode ==
    /\ Reversal
    /\ event.before.rapidMode
    /\ Len(event.before.keyPressHistory) >= DefaultRapidModeThreshold
    /\ now - event.before.keyPressHistory[1] <= rapidModeWindow
    /\ dial.keyPressHistory = <<now>>

----------------------------------------------------------------------------
(* SpecCycle: one cook cycle, started by Aux and left to the timers *)

\* seconds of the clock a cook cycle is followed for
MaxSeconds == 140
\* the times set before the cycle, in minutes
CycleMinutes == {1, 2}

\* the single input: Aux in Setup, while the clock has the steps of a whole
\* cycle left (one for the ring fill, and the seconds of preheat and cooking)
StartCook ==
    /\ Lifecycle(dial) = "Setup"
    /\ ~dial.countdownMode
    /\ now + (1 + preheatSeconds + 60 * dial.totalMinutes) * TickMs
            <= Epoch + MaxSeconds * TickMs
    /\ Aux

\* a callback has something to do now: the frames come about every 16 ms
\* and the countdown interval every 100 ms, so it runs before the clock's
\* next step
CallbackDue ==
    \/ /\ dial.rafRingFill > 0
       /\ now - ToNumber(dial.ringFillStartTime) >= ringFillDuration
    \/ /\ dial.countdownMode
       /\ updateCountdown(dial, now) # dial

Second ==
    /\ ~CallbackDue
    /\ now + TickMs <= Epoch + MaxSeconds * TickMs
    /\ now' = now + TickMs
    /\ event' = NoEvent
    /\ UNCHANGED <<dial, debugSettings, inputs, range>>

InitCycle ==
    /\ InitWith({[DefaultDebugSettings EXCEPT !.autoReset = FALSE]}, 0)
    /\ dial \in { AfterRotate(debugSettings, 400, minutes, FALSE, "o") :
                    minutes \in CycleMinutes }

NextCycle ==
    \/ StartCook
    \/ RingFillFrame
    \/ CountdownInterval
    \/ Second

\* the browser keeps running the frames and the intervals, and time passes
SpecCycle ==
    /\ InitCycle
    /\ [][NextCycle]_vars
    /\ WF_vars(RingFillFrame)
    /\ WF_vars(CountdownInterval)
    /\ WF_vars(Second)

\* C13: in a cook cycle started by Aux with preheat enabled and left without
\* input, Starting leads to Preheat, where the countdown's duration is 60
\* times totalMinutes; Preheat leads to Cooking, entered 10 s after the
\* countdown's start (at the first step of the clock to reach it) and with
\* the start stamped anew; Cooking leads to Complete, entered the duration
\* after that start and with totalMinutes 0; so every cycle started reaches
\* Complete.
C13_CookCycleCompletes ==
    /\ [](Lifecycle(dial) = "Preheat"
            => /\ dial.totalMinutes \in CycleMinutes
               /\ dial.countdownDuration = 60 * dial.totalMinutes)
    /\ [][ (Lifecycle(dial) = "Preheat" /\ Lifecycle(dial') # "Preheat")
            => /\ Lifecycle(dial') = "Cooking"
               /\ now - dial.countdownStartTime >= preheatSeconds * 1000
               /\ now - dial.countdownStartTime
                    < preheatSeconds * 1000 + TickMs
               /\ dial'.countdownStartTime = now
               /\ dial'.countdownDuration = dial.countdownDuration ]_vars
    /\ [][ (Lifecycle(dial) = "Cooking" /\ Lifecycle(dial') # "Cooking")
            => /\ Lifecycle(dial') = "Complete"
               /\ now - dial.countdownStartTime
                    >= dial.countdownDuration * 1000
               /\ now - dial.countdownStartTime
                    < dial.countdownDuration * 1000 + TickMs
               /\ dial'.totalMinutes = 0 ]_vars
    /\ (Lifecycle(dial) = "Starting") ~> (Lifecycle(dial) = "Preheat")
    /\ (Lifecycle(dial) = "Preheat") ~> (Lifecycle(dial) = "Cooking")
    /\ (Lifecycle(dial) = "Cooking") ~> (Lifecycle(dial) = "Complete")
    /\ (Lifecycle(dial) = "Starting") ~> (Lifecycle(dial) = "Complete")

\* reached: a two-minute cycle has completed, 130 s after its preheat began
C13_TwoMinuteCycleComplete ==
    /\ Lifecycle(dial) = "Complete"
    /\ dial.totalMinutes = 0
    /\ dial.countdownDuration = 120
    /\ inputs = 1

----------------------------------------------------------------------------
(* The tick layout *)

DEFAULT_TEMP_TICK_COUNT == 72

GlobalTickModes == {"default", "72-ticks", "72-continuous"}
TickModes == {"hourly", "wrap", "15min"}

getTickCountForMode(settings, mode) ==
    IF settings.globalTickMode \in {"72-ticks", "72-continuous"} THEN 72
    ELSE CASE mode = "phaseA"       -> 59
           [] mode = "tempMode"     -> DEFAULT_TEMP_TICK_COUNT + 1
           [] mode = "phaseBHourly" -> 72
           [] mode = "phaseBWrap"   -> 72
           [] mode = "phaseB15Min"  -> 285
           [] OTHER                 -> 72

\* a layout: the ticks drawn, the index of the current tick and the number of
\* ticks drawn filled
TickLayout(total, current, filled) ==
    [totalTicks |-> total, currentIndex |-> current, filledCount |-> filled]

\* tempIncrement is tempRange / 72 = 5 / 2; Math.round(x) is floor(x + 1/2)
temperatureLayout(settings, temperature) ==
    LET totalTempTicks == getTickCountForMode(settings, "tempMode")
        tempRange == maxTemp - minTemp
    IN  IF settings.globalTickMode \in {"72-ticks", "72-continuous"}
        THEN LET tempProgress == (temperature - minTemp) % tempRange
             IN  TickLayout(totalTempTicks,
                            (4 * tempProgress * 72 + 2 * tempRange)
                                \div (4 * tempRange),
                            (((temperature - minTemp) * 72) \div tempRange) + 1)
        ELSE LET currentTempTick ==
                    (4 * (temperature - minTemp) * DEFAULT_TEMP_TICK_COUNT
                        + 2 * tempRange) \div (4 * tempRange)
             IN  TickLayout(totalTempTicks, currentTempTick,
                            currentTempTick + 1)

phaseALayout(settings, totalMinutes) ==
    LET totalTicks == getTickCountForMode(settings, "phaseA")
        minuteProgress == Max(1, Min(totalMinutes, 59))
        \* Math.ceil(minuteProgress * 72 / 59)
        filledTicks == IF settings.globalTickMode = "72-ticks"
                       THEN (minuteProgress * 72 + 58) \div 59
                       ELSE minuteProgress
    IN  TickLayout(totalTicks, filledTicks - 1, filledTicks)

phaseB15MinLayout(settings, totalMinutes) ==
    LET totalTicks == getTickCountForMode(settings, "phaseB15Min")
        minutesInPhaseB == totalMinutes - 60
        ticksInPhaseB == Max(1, (minutesInPhaseB \div 15) + 1)
    IN  TickLayout(totalTicks, ticksInPhaseB - 1, ticksInPhaseB)

phaseBWrapLayout(settings, totalMinutes) ==
    LET totalTicks == getTickCountForMode(settings, "phaseBWrap")
        minutesInPhaseB == totalMinutes - 60
        incrementsCompleted == (minutesInPhaseB \div 15) + 1
        maxContinuousSlots == 13
        wrappedIncrements == incrementsCompleted - maxContinuousSlots
    IN  IF settings.globalTickMode = "72-continuous"
        THEN IF incrementsCompleted <= maxContinuousSlots
             THEN TickLayout(totalTicks, 59 + (incrementsCompleted - 1),
                             59 + incrementsCompleted)
             ELSE TickLayout(totalTicks,
                             (wrappedIncrements - 1) % totalTicks,
                             ((wrappedIncrements - 1) % totalTicks) + 1)
        ELSE TickLayout(totalTicks,
                        (incrementsCompleted - 1) % totalTicks,
                        ((incrementsCompleted - 1) % totalTicks) + 1)

\* variant: a looped hour fills the ticks up to the current one only
phaseBHourlyLayoutLoopedFill(settings, totalMinutes) ==
    LET totalTicks == getTickCountForMode(settings, "phaseBHourly")
        minutesInPhaseB == totalMinutes - 60
    IN  IF settings.globalTickMode = "72-ticks"
        THEN LET hourProgress == (minutesInPhaseB \div 60) % 72
                 hoursCompleted == Max(1, hourProgress + 1)
             IN  TickLayout(totalTicks, (hoursCompleted - 1) % 72,
                            hoursCompleted)
        ELSE IF settings.globalTickMode = "72-continuous"
        THEN LET hoursFromStart == totalMinutes \div 60
                 maxAvailableHours == 13
                 loopedHour == ((hoursFromStart - 1) % maxAvailableHours) + 1
             IN  IF hoursFromStart > maxAvailableHours
                 THEN TickLayout(totalTicks, 58 + loopedHour, 59 + loopedHour)
                 ELSE TickLayout(totalTicks, 59 + (hoursFromStart - 1),
                                 59 + hoursFromStart)
        ELSE LET hoursCompleted == Max(1, (minutesInPhaseB \div 60) + 1)
             IN  TickLayout(totalTicks, hoursCompleted - 1, hoursCompleted)

phaseBHourlyLayout(settings, totalMinutes) ==
    LET totalTicks == getTickCountForMode(settings, "phaseBHourly")
        minutesInPhaseB == totalMinutes - 60
    IN  IF settings.globalTickMode = "72-ticks"
        THEN LET hourProgress == (minutesInPhaseB \div 60) % 72
                 hoursCompleted == Max(1, hourProgress + 1)
             IN  TickLayout(totalTicks, (hoursCompleted - 1) % 72,
                            hoursCompleted)
        ELSE IF settings.globalTickMode = "72-continuous"
        THEN LET hoursFromStart == totalMinutes \div 60
                 maxAvailableHours == 13
                 loopedHour == ((hoursFromStart - 1) % maxAvailableHours) + 1
             IN  IF hoursFromStart > maxAvailableHours
                 THEN TickLayout(totalTicks, 58 + loopedHour, 72)
                 ELSE TickLayout(totalTicks, 59 + (hoursFromStart - 1),
                                 59 + hoursFromStart)
        ELSE LET hoursCompleted == Max(1, (minutesInPhaseB \div 60) + 1)
             IN  TickLayout(totalTicks, hoursCompleted - 1, hoursCompleted)

\* the layout render() draws in Setup: renderTemperatureMode, renderPhaseA
\* under 60 minutes, and otherwise the Phase B layout of the tick mode
LayoutName(settings, tempMode, totalMinutes) ==
    IF tempMode THEN "tempMode"
    ELSE IF totalMinutes < 60 THEN "phaseA"
    ELSE IF settings.tickMode = "hourly" THEN "phaseBHourly"
    ELSE IF settings.tickMode = "wrap" THEN "phaseBWrap"
    ELSE "phaseB15Min"

SetupLayout(settings, tempMode, temperature, totalMinutes) ==
    LET name == LayoutName(settings, tempMode, totalMinutes)
    IN  CASE name = "tempMode" -> temperatureLayout(settings, temperature)
          [] name = "phaseA" -> phaseALayout(settings, totalMinutes)
          [] name = "phaseBHourly" ->
                phaseBHourlyLayout(settings, totalMinutes)
          [] name = "phaseBWrap" -> phaseBWrapLayout(settings, totalMinutes)
          [] OTHER -> phaseB15MinLayout(settings, totalMinutes)

----------------------------------------------------------------------------
(* SpecLayout: the dial in Setup at every value, under every tick policy *)

LayoutSettings ==
    { [DefaultDebugSettings EXCEPT !.rapidModeThreshold = 2,
                                   !.autoReset = FALSE,
                                   !.globalTickMode = gtm,
                                   !.tickMode = tm] :
        gtm \in GlobalTickModes, tm \in TickModes }

\* the rotate events that set the value are handled; one more event is
\* explored
InitLayout ==
    /\ InitWith(LayoutSettings, MaxInputs - 1)
    /\ dial \in SetupDials(debugSettings)

NextLayout ==
    \/ RotateIncrease
    \/ RotateDecrease
    \/ Press

SpecLayout == InitLayout /\ [][NextLayout]_vars

\* the layout of the state
CurrentLayout ==
    SetupLayout(debugSettings, dial.tempMode, dial.temperature,
                dial.totalMinutes)

\* C14: at every value of the dial in Setup and under every tick-count policy
\* and Phase-B tick mode, the index of the current tick is at least 0 and less
\* than the number of ticks.
C14_CurrentIndexInRange ==
    Lifecycle(dial) = "Setup" =>
        /\ 0 <= CurrentLayout.currentIndex
        /\ CurrentLayout.currentIndex < CurrentLayout.totalTicks

\* reached: the 15-minute layout under a 72-tick policy, with the current
\* tick beyond the 72 drawn
C14_QuarterHoursPastTheRing ==
    /\ LayoutName(debugSettings, dial.tempMode, dial.totalMinutes)
            = "phaseB15Min"
    /\ debugSettings.globalTickMode = "72-continuous"
    /\ dial.totalMinutes = 60 + 15 * 72
    /\ CurrentLayout.totalTicks = 72
    /\ CurrentLayout.currentIndex = 72

\* the layouts that do not wrap, and the values each is drawn for
NonWrappingLayouts == {"tempMode", "phaseA", "phaseBHourly", "phaseB15Min"}

LayoutValues(name) ==
    IF name = "tempMode" THEN Temperatures
    ELSE IF name = "phaseA" THEN 1 .. 59
    ELSE Minutes \ (1 .. 59)

\* the number of ticks the layout draws filled at that value
filledCountAt(settings, name, value) ==
    (CASE name = "tempMode" -> temperatureLayout(settings, value)
       [] name = "phaseA" -> phaseALayout(settings, value)
       [] name = "phaseBHourly" -> phaseBHourlyLayout(settings, value)
       [] name = "phaseBWrap" -> phaseBWrapLayout(settings, value)
       [] OTHER -> phaseB15MinLayout(settings, value)).filledCount

\* C15: in the Temperature, Phase A, Phase B hourly and Phase B 15-minute
\* layouts, under every tick-count policy, no greater value of the quantity
\* drawn has a smaller filledCount than the value of the state.
C15_FilledCountMonotonic ==
    LET name == LayoutName(debugSettings, dial.tempMode, dial.totalMinutes)
        value == IF dial.tempMode THEN dial.temperature ELSE dial.totalMinutes
    IN  (Lifecycle(dial) = "Setup" /\ name \in NonWrappingLayouts) =>
            /\ CurrentLayout.filledCount
                    = filledCountAt(debugSettings, name, value)
            /\ \A greater \in LayoutValues(name) :
                    value <= greater =>
                        CurrentLayout.filledCount
                            <= filledCountAt(debugSettings, name, greater)

\* reached: an increase into the looped hours of the hourly layout, which
\* keeps every tick filled
C15_LoopedHoursStayFilled ==
    /\ event.key = "p"
    /\ LayoutName(debugSettings, dial.tempMode, dial.totalMinutes)
            = "phaseBHourly"
    /\ debugSettings.globalTickMode = "72-continuous"
    /\ event.before.totalMinutes < 14 * 60
    /\ dial.totalMinutes >= 14 * 60
    /\ CurrentLayout.filledCount = 72

----------------------------------------------------------------------------
(* The countdown *)

\* C16: in every reachable state the countdown is present (the dial counts
\* down from a start timestamp) if the lifecycle is Preheat or Cooking, and
\* otherwise absent: not counting, with no start timestamp and no duration.
C16_CountdownIffCounting ==
    IF Lifecycle(dial) \in {"Preheat", "Cooking"}
    THEN /\ dial.countdownMode
         /\ dial.countdownStartTime # null
    ELSE /\ ~dial.countdownMode
         /\ dial.countdownStartTime = null
         /\ dial.countdownDuration = 0

\* reached: a cook cycle started by one Aux event has completed and the
\* countdown's start and duration are still set
C16_CountdownLeftInComplete ==
    /\ Lifecycle(dial) = "Complete"
    /\ inputs = 1
    /\ ~dial.countdownMode
    /\ dial.countdownStartTime # null
    /\ dial.countdownDuration = 600

----------------------------------------------------------------------------
(* SpecKeys: keydown events of every kind, with and without the dial's own
   key binding *)

\* the keys of the interaction model, the same keys with shift or caps lock
\* held, and keys the dial has no use for
UpperKeys == {"O", "P", "Q", "R"}
OtherKeys == {"X", "!", "Enter"}

\* the logical action a key stands for
ActionOfKey(key) ==
    CASE key \in {"o", "O"} -> "RotateDecrease"
      [] key \in {"p", "P"} -> "RotateIncrease"
      [] key \in {"q", "Q"} -> "Press"
      [] key = "1"          -> "Aux"
      [] key \in {"r", "R"} -> "Reset"
      [] OTHER              -> "None"

\* what each logical action does to the dial
Apply(d, action, t) ==
    CASE action = "RotateIncrease" ->
            IF d.cookingComplete THEN navigateButtons(d, 1)
            ELSE increaseValue(
                    IF debugSettings.trailMode = "stay"
                    THEN startTrailDirectionAnimation(d, "normal", t)
                    ELSE d, t)
      [] action = "RotateDecrease" ->
            IF d.cookingComplete THEN navigateButtons(d, -1)
            ELSE decreaseValue(
                    IF debugSettings.trailMode = "stay"
                    THEN startTrailDirectionAnimation(d, "opposite", t)
                    ELSE d, t)
      [] action = "Press" -> toggleMode(d)
      [] action = "Aux"   -> startCooking(d, t)
      [] action = "Reset" -> restart(d, t)
      [] OTHER            -> d

\* with autoBindKeys the document's keydown listener calls handleKeydown,
\* without it the host page does: either way the event reaches KeyDown
LowerKey == \E key \in Keys : KeyDown(key)
UpperKey == \E key \in UpperKeys : KeyDown(key)
OtherKey == \E key \in OtherKeys : KeyDown(key)
KeylessEvent == KeyDown(NoKey)

KeyDials ==
    { [Constructed(Epoch) EXCEPT !.autoBindKeys = bound] : bound \in BOOLEAN }

\* preheat off, so that one long step of the clock ends the countdown
KeySettings ==
    { [DefaultDebugSettings EXCEPT !.preheatEnabled = FALSE,
                                   !.rapidModeThreshold = 2,
                                   !.autoReset = FALSE] }

InitKeys ==
    /\ InitWith(KeySettings, 0)
    /\ dial \in KeyDials

NextKeys ==
    \/ LowerKey
    \/ UpperKey
    \/ OtherKey
    \/ KeylessEvent
    \/ RingFillFrame
    \/ CountdownInterval
    \/ Tick
    \/ Sleep

SpecKeys == InitKeys /\ [][NextKeys]_vars

\* C17: every keydown event has the effect of the logical action its key
\* stands for, whatever the case of the key: o and O rotate down, p and P
\* rotate up, q and Q press, 1 is the auxiliary button, r and R reset; any
\* other key and an event without a key change nothing; and whether the
\* dial bound the keys itself makes no difference and is never changed
C17_KeysMapCaseInsensitively ==
    [][/\ event'.key # "none" =>
            dial' = Apply(dial, ActionOfKey(event'.key), now')
       /\ dial'.autoBindKeys = dial.autoBindKeys]_vars

\* an upper-case P, handed to a dial that did not bind the keys itself, has
\* rotated the temperature up
C17_UpperCaseRotatesUnboundDial ==
    /\ event.key = "P"
    /\ ~dial.autoBindKeys
    /\ Lifecycle(event.before) = "Setup"
    /\ dial.temperature > event.before.temperature

----------------------------------------------------------------------------
(* SpecConstruct: the page constructs the dial from the options it was given *)

\* values a page may pass as options.debugSettings.rapidModeThreshold
ThresholdOptions ==
    { Absent,
      NumberOption(0 - 5), NumberOption(0), NumberOption(1), NumberOption(2),
      NumberOption(DefaultRapidModeThreshold),
      StringOption(<<>>), StringOption(<<"a", "b", "c">>),
      StringOption(<<"7", "p", "x">>), StringOption(<<"-", "3">>) }

DigitValue ==
    [c \in {"0", "1", "2", "3", "4", "5", "6", "7", "8", "9"} |->
        CASE c = "0" -> 0 [] c = "1" -> 1 [] c = "2" -> 2 [] c = "3" -> 3
          [] c = "4" -> 4 [] c = "5" -> 5 [] c = "6" -> 6 [] c = "7" -> 7
          [] c = "8" -> 8 [] OTHER -> 9]

NaN == [nan |-> TRUE, value |-> 0]
Number(n) == [nan |-> FALSE, value |-> n]

\* the digits text starts with, read in base ten; NaN if it starts with none
RECURSIVE leadingDigits(_, _, _)
leadingDigits(text, seen, value) ==
    IF text # <<>> /\ Head(text) \in DOMAIN DigitValue
    THEN leadingDigits(Tail(text), TRUE, 10 * value + DigitValue[Head(text)])
    ELSE IF seen THEN Number(value) ELSE NaN

\* parseInt(option, 10): a number is read as it is, a string by its sign and
\* leading digits, undefined gives NaN
parseInt(option) ==
    CASE option.type = "number" -> Number(option.number)
      [] option.type = "string" ->
            IF option.text # <<>> /\ Head(option.text) = "-"
            THEN LET digits == leadingDigits(Tail(option.text), FALSE, 0)
                 IN  IF digits.nan THEN NaN ELSE Number(0 - digits.value)
            ELSE leadingDigits(option.text, FALSE, 0)
      [] OTHER -> NaN

\* Math.max(1, parseInt(...) || 30): NaN and 0 are falsy
constructedThreshold(option) ==
    LET parsed == parseInt(IF option = Absent
                           THEN NumberOption(DefaultRapidModeThreshold)
                           ELSE option)
    IN  Max(1, IF parsed.nan \/ parsed.value = 0
               THEN DefaultRapidModeThreshold ELSE parsed.value)

\* the settings the constructor leaves in this.debugSettings
constructedSettings(option) ==
    [DefaultDebugSettings EXCEPT
        !.rapidModeThreshold = constructedThreshold(option),
        !.autoReset = FALSE]

\* a threshold a dial can work with: none given, or a count of at least one
ValidThreshold(option) ==
    \/ option = Absent
    \/ option.type = "number" /\ option.number >= 1

\* new CircularTimeDial(target, {debugSettings: {rapidModeThreshold: option}})
Construct(option) ==
    /\ inputs < MaxInputs
    /\ dial' = Constructed(now)
    /\ debugSettings' = constructedSettings(option)
    /\ inputs' = inputs + 1
    /\ event' = [key |-> "new", before |-> dial, option |-> option]
    /\ UNCHANGED <<now, range>>

Load == \E option \in ThresholdOptions : Construct(option)

InitConstruct ==
    /\ InitWith({constructedSettings(Absent)}, 0)
    /\ dial = Constructed(Epoch)

NextConstruct ==
    \/ Load
    \/ RotateIncrease
    \/ RotateDecrease
    \/ Tick

SpecConstruct == InitConstruct /\ [][NextConstruct]_vars

\* C18: no dial is constructed from an invalid rapid-mode threshold (zero,
\* negative or not a number): a construction that creates dial state is one
\* whose threshold was valid, and the dial uses the threshold it was given
C18_InvalidThresholdRejected ==
    [][event'.key = "new" =>
            /\ ValidThreshold(event'.option)
            /\ event'.option # Absent =>
                    debugSettings'.rapidModeThreshold = event'.option.number]_vars

\* a dial constructed with threshold 0 exists and counts to the default 30
C18_ZeroThresholdBecomesDefault ==
    /\ event.key = "new"
    /\ event.option = NumberOption(0)
    /\ dial = Constructed(now)
    /\ debugSettings.rapidModeThreshold = DefaultRapidModeThreshold

----------------------------------------------------------------------------
(* SpecStep: single steps of the time, with the default threshold of 30 *)

StepSettings == { [DefaultDebugSettings EXCEPT !.autoReset = FALSE] }

InitStep ==
    /\ InitWith(StepSettings, 1)
    /\ dial \in SetupDials(debugSettings)

NextStep ==
    \/ RotateIncrease
    \/ RotateDecrease
    \/ Press
    \/ Tick

SpecStep == InitStep /\ [][NextStep]_vars

\* a rotate event handled in Setup, in Time mode, with multiplier 1
SingleTimeStep ==
    /\ event'.key \in {"o", "p"}
    /\ Lifecycle(dial) = "Setup"
    /\ ~dial.tempMode
    /\ dial'.accelerationMultiplier = 1

\* C19 as stated: a single step changes the time by 1 below 60 and by 15
\* from 60 up, clamped to [1, 4320], and only a decrease at exactly 60
\* differs, giving 59
C19_StepOneOrFifteen ==
    [][SingleTimeStep =>
        LET minutes == dial.totalMinutes
            step == IF minutes < 60 THEN 1 ELSE 15
        IN  dial'.totalMinutes =
                IF event'.key = "p" THEN Min(minutes + step, maxMinutes)
                ELSE IF minutes = 60 THEN 59
                ELSE Max(minutes - step, 1)]_vars

\* C19: a single step changes the time by 1 below 60 and by 15 from 60 up,
\* clamped to [1, 4320], except that a decrease from 60 up to 75 gives 59:
\* one minute down from 60, and 59 instead of the 60 a quarter-hour step
\* from above would land on
C19_StepSnapsThroughSixty ==
    [][SingleTimeStep =>
        LET minutes == dial.totalMinutes
            step == IF minutes < 60 THEN 1 ELSE 15
        IN  dial'.totalMinutes =
                IF event'.key = "p" THEN Min(minutes + step, maxMinutes)
                ELSE IF minutes >= 60 /\ minutes <= 75 THEN 59
                ELSE Max(minutes - step, 1)]_vars

\* a single step down from 75 minutes has left 59
C19_DecreasedFromSeventyFive ==
    /\ event.key = "o"
    /\ Lifecycle(event.before) = "Setup"
    /\ ~event.before.tempMode
    /\ event.before.totalMinutes = 75
    /\ dial.accelerationMultiplier = 1
    /\ dial.totalMinutes = 59

----------------------------------------------------------------------------
(* The step multiplier, for the thresholds of SpecConstruct *)

----------------------------------------------------------------------------
(* Acceleration: leaving rapid mode, and the window *)

\* the rotate event of the step is handled by the engine in rapid mode and in
\* the direction of the event before it
SameDirectionInRapidMode ==
    /\ RotateStep
    /\ dial.rapidMode
    /\ dial.lastKeyPressed = event'.key
    /\ dial.keyPressHistory # <<>>

\* C21: a same-direction rotate handled in rapid mode more than 600 ms after
\* the previous recorded entry leaves rapid mode and returns multiplier 1, and
\* one handled at most 600 ms after it stays in rapid mode
C21_RapidModeDecays ==
    [][SameDirectionInRapidMode =>
        LET gap == now' - dial.keyPressHistory[Len(dial.keyPressHistory)]
        IN  IF gap > rapidModeDecayTime
            THEN ~dial'.rapidMode /\ dial'.accelerationMultiplier = 1
            ELSE dial'.rapidMode]_vars

\* reached: rapid mode is still on after a same-direction rotate that came
\* more than the decay time after the entry before it
C21_RapidModeKeptPastDecay ==
    /\ event.key \in {"o", "p"}
    /\ event.before.rapidMode
    /\ event.before.lastKeyPressed = event.key
    /\ event.before.keyPressHistory # <<>>
    /\ now - event.before.keyPressHistory[Len(event.before.keyPressHistory)]
            > rapidModeDecayTime
    /\ dial.rapidMode

----------------------------------------------------------------------------
(* SpecWindow: short runs of rotate events in both directions, at every gap,
   with resets between them *)

WindowPresses == 6

WindowSettings ==
    { [DefaultDebugSettings EXCEPT !.rapidModeThreshold = 3,
                                   !.autoReset = FALSE] }

WindowIncrease ==
    /\ inputs < WindowPresses
    /\ \E gap \in BurstGaps : RotateAfter(gap, "p")

WindowDecrease ==
    /\ inputs < WindowPresses
    /\ \E gap \in BurstGaps : RotateAfter(gap, "o")

InitWindow ==
    /\ InitWith(WindowSettings, 0)
    /\ dial = Constructed(Epoch)

NextWindow ==
    \/ WindowIncrease
    \/ WindowDecrease
    \/ Reset

SpecWindow == InitWindow /\ [][NextWindow]_vars

\* the entries of a window
Entries(history) == { history[i] : i \in 1 .. Len(history) }

\* C22: after every call of the engine at time now the window ends with now,
\* holds only timestamps at most 2000 ms old, in non-decreasing order, and
\* every entry before the last was in the window before the call and is kept
\* only if the call is in the direction of the call before it; a reset leaves
\* the window empty
C22_WindowOfCurrentDirection ==
    [][/\ RotateStep =>
            LET history == dial'.keyPressHistory
                kept == IF dial.lastKeyPressed = event'.key
                        THEN Entries(dial.keyPressHistory) ELSE {}
            IN  /\ history # <<>>
                /\ history[Len(history)] = now'
                /\ \A i \in 1 .. Len(history) :
                        now' - history[i] <= rapidModeWindow
                /\ \A i, j \in 1 .. Len(history) :
                        i < j => history[i] <= history[j]
                /\ \A i \in 1 .. Len(history) - 1 : history[i] \in kept
       /\ event'.key = "r" => dial'.keyPressHistory = <<>>]_vars

\* reached: a same-direction call has discarded the oldest entry of the
\* window and kept a later one
C22_OldestEntryDiscarded ==
    /\ event.key = "p"
    /\ event.before.lastKeyPressed = "p"
    /\ Len(event.before.keyPressHistory) >= 2
    /\ Len(dial.keyPressHistory) >= 2
    /\ event.before.keyPressHistory[1] \notin Entries(dial.keyPressHistory)
    /\ event.before.keyPressHistory[2] \in Entries(dial.keyPressHistory)

----------------------------------------------------------------------------
(* Temperature steps *)

\* the multipliers the calls 1 .. k of a same-direction run returned, added
\* up, when the window still holds all of them: a call returns 4 if the
\* window holds the threshold or more and the call came within the decay
\* time of the one before, and 1 otherwise
RECURSIVE SumOfMultipliers(_, _)
SumOfMultipliers(history, k) ==
    IF k = 0 THEN 0
    ELSE SumOfMultipliers(history, k - 1) +
            (IF /\ k >= debugSettings.rapidModeThreshold
                /\ (k = 1 \/ history[k] - history[k - 1] <= rapidModeDecayTime)
             THEN maxAcceleration ELSE 1)

\* C23: a rotate event handled in Setup in Temperature mode away from the
\* bound changes the temperature by 5 times the multiplier returned for that
\* event, in the direction of the rotate, clamped to [300, 480]; and in a run
\* of increases from the constructed dial the temperature is 400 plus 5 times
\* the sum of the multipliers of its calls, until it stops at 480
C23_TemperatureStepsByMultiplier ==
    /\ [][(/\ RotateStep
           /\ Lifecycle(dial) = "Setup"
           /\ dial.tempMode) =>
            LET m == dial'.accelerationMultiplier
            IN  /\ (event'.key = "p" /\ dial.temperature < maxTemp) =>
                        dial'.temperature =
                            Min(dial.temperature + 5 * m, maxTemp)
                /\ (event'.key = "o" /\ dial.temperature > minTemp) =>
                        dial'.temperature =
                            Max(dial.temperature - 5 * m, minTemp)]_vars
    /\ []((/\ dial.lastKeyPressed = "p"
           /\ Len(dial.keyPressHistory) = inputs
           /\ Lifecycle(dial) = "Setup"
           /\ dial.tempMode) =>
            dial.temperature =
                Min(Constructed(Epoch).temperature
                        + 5 * SumOfMultipliers(dial.keyPressHistory, inputs),
                    maxTemp))

\* reached: a run of six increases, two at multiplier 1 and four at
\* multiplier 4, has taken the temperature from 400 to the bound
C23_MixedRunReachesBound ==
    /\ dial.lastKeyPressed = "p"
    /\ Len(dial.keyPressHistory) = 6
    /\ inputs = 6
    /\ SumOfMultipliers(dial.keyPressHistory, 6) = 18
    /\ dial.accelerationMultiplier = maxAcceleration
    /\ event.before.temperature = 470
    /\ dial.temperature = maxTemp

----------------------------------------------------------------------------
(* Inputs during the cook cycle *)

\* C24: while the lifecycle is Starting a rotate or press event changes
\* neither the temperature, nor the minutes, nor the mode; and the duration
\* captured when Starting ends is 60 times the minutes
C24_StartingIgnoresInput ==
    [][/\ (Lifecycle(dial) = "Starting" /\ event'.key \in {"o", "p", "q"}) =>
            /\ dial'.temperature = dial.temperature
            /\ dial'.totalMinutes = dial.totalMinutes
            /\ dial'.tempMode = dial.tempMode
       /\ (Lifecycle(dial) = "Starting"
                /\ Lifecycle(dial') \in {"Preheat", "Cooking"}) =>
            dial'.countdownDuration = 60 * dial.totalMinutes]_vars

\* reached: a rotate event handled during Starting has changed the minutes
\* the countdown will be started with
C24_MinutesTurnedWhileStarting ==
    /\ event.key \in {"o", "p"}
    /\ Lifecycle(event.before) = "Starting"
    /\ Lifecycle(dial) = "Starting"
    /\ dial.totalMinutes # event.before.totalMinutes


\* C25: an Aux event received while the lifecycle is Starting neither
\* restarts nor prolongs the fill animation: its start time stays that of the
\* Aux event that began it and no further frame is requested; and Starting
\* ends no sooner than 800 ms after that start
C25_StartingFixedFromFirstAux ==
    [][/\ (Lifecycle(dial) = "Starting" /\ event'.key = "1") =>
            /\ dial'.ringFillStartTime = dial.ringFillStartTime
            /\ dial'.rafRingFill = dial.rafRingFill
       /\ (Lifecycle(dial) = "Starting"
                /\ Lifecycle(dial') \in {"Preheat", "Cooking"}) =>
            now' - dial.ringFillStartTime >= ringFillDuration]_vars

\* reached: an Aux event handled during Starting, after the clock has moved
\* on, has set a later start time and requested frames of its own
C25_SecondAuxRestartsFill ==
    /\ event.key = "1"
    /\ Lifecycle(event.before) = "Starting"
    /\ Lifecycle(dial) = "Starting"
    /\ dial.ringFillStartTime > event.before.ringFillStartTime
    /\ dial.rafRingFill > event.before.rafRingFill


\* what an ignored event must leave alone
CookingView(d) ==
    [ lifecycle          |-> Lifecycle(d),
      temperature        |-> d.temperature,
      totalMinutes       |-> d.totalMinutes,
      tempMode           |-> d.tempMode,
      countdownMode      |-> d.countdownMode,
      countdownStartTime |-> d.countdownStartTime,
      countdownDuration  |-> d.countdownDuration,
      keyPressHistory    |-> d.keyPressHistory,
      rapidMode          |-> d.rapidMode,
      accelerationMultiplier |-> d.accelerationMultiplier,
      lastKeyPressed     |-> d.lastKeyPressed,
      trailDirection     |-> d.trailDirection,
      trailDirectionTarget |-> d.trailDirectionTarget,
      trailDirectionAnimationStart |-> d.trailDirectionAnimationStart,
      trailLength        |-> d.trailLength,
      currentTrailLength |-> d.currentTrailLength,
      rafTrailDirection  |-> d.rafTrailDirection ]

\* C26: while the lifecycle is Preheat or Cooking a rotate, press or aux
\* event changes nothing: lifecycle, temperature, minutes, mode, countdown,
\* window, rapid mode and the direction and length of the trail are as before,
\* in every trail mode
C26_CountdownIgnoresInput ==
    [][(/\ Lifecycle(dial) \in {"Preheat", "Cooking"}
        /\ event'.key \in {"o", "p", "q", "1"}) =>
            CookingView(dial') = CookingView(dial)]_vars

\* reached: in trail mode 'stay' a rotate event handled during Preheat or
\* Cooking has turned the trail round
C26_TrailTurnedWhileCooking ==
    /\ debugSettings.trailMode = "stay"
    /\ event.key = "o"
    /\ Lifecycle(event.before) \in {"Preheat", "Cooking"}
    /\ event.before.trailDirectionTarget = "normal"
    /\ dial.trailDirectionTarget = "opposite"


\* C27: with preheat enabled, the step that takes the dial from Preheat to
\* Cooking comes no sooner than 10 s after the countdown's start and sets the
\* start to its own time; and every step into Complete is taken from Cooking
\* (never from Preheat), no sooner than the duration after that start
C27_CountdownFromEndOfPreheat ==
    [][debugSettings.preheatEnabled =>
        /\ (Lifecycle(dial) = "Preheat" /\ Lifecycle(dial') = "Cooking") =>
                /\ now' - dial.countdownStartTime >= preheatSeconds * 1000
                /\ dial'.countdownStartTime = now'
                /\ dial'.countdownDuration = dial.countdownDuration
        /\ (Lifecycle(dial) # "Complete" /\ Lifecycle(dial') = "Complete") =>
                /\ Lifecycle(dial) = "Cooking"
                /\ now' - dial.countdownStartTime
                        >= dial.countdownDuration * 1000]_vars

\* reached: with preheat enabled the countdown has run out, and all of its
\* duration has passed since the start that the end of the preheat set
C27_CompleteAfterPreheat ==
    /\ debugSettings.preheatEnabled
    /\ Lifecycle(dial) = "Complete"
    /\ ~dial.countdownMode
    /\ dial.countdownDuration > 0
    /\ dial.countdownStartTime
            >= ToNumber(dial.ringFillStartTime) + preheatSeconds * 1000
    /\ now - dial.countdownStartTime >= dial.countdownDuration * 1000

----------------------------------------------------------------------------
(* The completion options *)

\* C28: the selected option is always the first (0) or the second (1); a
\* rotate event handled in Complete, in either direction, selects the other
\* option and leaves temperature, minutes and lifecycle alone; and whenever
\* Complete is entered the first option is selected
C28_RotateTogglesOption ==
    /\ [](dial.selectedButton \in {0, 1})
    /\ [][(Lifecycle(dial) = "Complete" /\ event'.key \in {"o", "p"}) =>
            /\ dial'.selectedButton = 1 - dial.selectedButton
            /\ dial'.temperature = dial.temperature
            /\ dial'.totalMinutes = dial.totalMinutes
            /\ Lifecycle(dial') = "Complete"]_vars
    /\ [][(Lifecycle(dial) # "Complete" /\ Lifecycle(dial') = "Complete") =>
            dial'.selectedButton = 0]_vars

\* reached: the second of two rotate events in Complete has brought the
\* selection back from the second option to the first
C28_SecondRotateRestores ==
    /\ event.key \in {"o", "p"}
    /\ Lifecycle(event.before) = "Complete"
    /\ event.before.selectedButton = 1
    /\ dial.selectedButton = 0
    /\ Lifecycle(dial) = "Complete"

----------------------------------------------------------------------------
(* One quantity per input *)

\* C29: in Setup a press flips the mode and leaves temperature and minutes
\* alone; a rotate in Temperature mode leaves minutes and mode alone; a rotate
\* in Time mode leaves temperature and mode alone
C29_OneQuantityPerInput ==
    [][(Lifecycle(dial) = "Setup" /\ inputs' = inputs + 1) =>
        /\ event'.key = "q" =>
                /\ dial'.tempMode = ~dial.tempMode
                /\ dial'.temperature = dial.temperature
                /\ dial'.totalMinutes = dial.totalMinutes
        /\ (event'.key \in {"o", "p"} /\ dial.tempMode) =>
                /\ dial'.totalMinutes = dial.totalMinutes
                /\ dial'.tempMode
        /\ (event'.key \in {"o", "p"} /\ ~dial.tempMode) =>
                /\ dial'.temperature = dial.temperature
                /\ ~dial'.tempMode]_vars

\* reached: the second of two presses has restored Time mode, after a rotate
\* had set the minutes, which the presses left as they were
C29_TwoPressesRestoreMode ==
    /\ event.key = "q"
    /\ Lifecycle(event.before) = "Setup"
    /\ inputs = 3
    /\ event.before.tempMode
    /\ ~dial.tempMode
    /\ dial.totalMinutes # Constructed(Epoch).totalMinutes
    /\ dial.totalMinutes = event.before.totalMinutes

----------------------------------------------------------------------------
(* The colour of a tick *)

\* '#FA4947', BASE_GRAY and the colours computed per tick
Accent == "accent"
BaseGray == "gray"
GradientShade == "gradient"
TrailShade == "trail"
NextHourShade == "rgba"

GradientColorModes == {"standard", "gradient", "seamless"}

\* the stroke colour drawTick chooses
drawTick(settings, isFilled, isCurrent, isPhaseB, isNext, progress) ==
    IF settings.trailMode = "animated"
    THEN IF isCurrent THEN Accent ELSE TrailShade
    ELSE IF settings.gradientColorMode = "standard"
    THEN IF isFilled THEN Accent
         ELSE IF isNext /\ isPhaseB /\ settings.tickMode = "hourly"
              THEN IF progress = 0 THEN BaseGray ELSE NextHourShade
              ELSE BaseGray
    ELSE IF settings.gradientColorMode = "seamless"
    THEN IF isCurrent THEN Accent ELSE GradientShade
    ELSE IF isFilled
         THEN IF isCurrent THEN Accent ELSE GradientShade
         ELSE BaseGray

\* the stroke colour drawWrapTick chooses
drawWrapTick(settings, isFilled, isCurrent, showAsGray) ==
    IF settings.trailMode = "animated"
    THEN IF isCurrent THEN Accent ELSE TrailShade
    ELSE IF settings.gradientColorMode = "seamless"
    THEN IF isCurrent THEN Accent ELSE GradientShade
    ELSE IF showAsGray THEN BaseGray
    ELSE IF settings.gradientColorMode = "standard"
    THEN IF isFilled THEN Accent ELSE BaseGray
    ELSE IF isFilled
         THEN IF isCurrent THEN Accent ELSE GradientShade
         ELSE BaseGray

\* currentLap of renderPhaseBWrap
phaseBWrapLap(settings, totalMinutes) ==
    LET totalTicks == getTickCountForMode(settings, "phaseBWrap")
        incrementsCompleted == ((totalMinutes - 60) \div 15) + 1
        maxContinuousSlots == 13
        wrappedIncrements == incrementsCompleted - maxContinuousSlots
    IN  IF settings.globalTickMode = "72-continuous"
        THEN IF incrementsCompleted <= maxContinuousSlots THEN 0
             ELSE ((wrappedIncrements - 1) \div totalTicks) + 1
        ELSE (incrementsCompleted - 1) \div totalTicks

\* the colour tick i is drawn in by the Setup frame of that value
TickColour(settings, tempMode, temperature, totalMinutes, i) ==
    LET name == LayoutName(settings, tempMode, totalMinutes)
        layout == SetupLayout(settings, tempMode, temperature, totalMinutes)
        isFilled == i < layout.filledCount
        isCurrent == i = layout.currentIndex
    IN  CASE name = "phaseBWrap" ->
                LET currentLap == phaseBWrapLap(settings, totalMinutes)
                    showAsGray ==
                        /\ i >= layout.filledCount
                        /\ IF settings.globalTickMode = "72-continuous"
                           THEN currentLap > 1 ELSE currentLap > 0
                IN  drawWrapTick(settings, isFilled, isCurrent, showAsGray)
          [] name = "phaseBHourly" ->
                drawTick(settings, isFilled, isCurrent, TRUE,
                         /\ i = layout.currentIndex + 1
                         /\ layout.currentIndex + 1 < layout.totalTicks,
                         (totalMinutes - 60) % 60)
          [] name = "phaseB15Min" ->
                drawTick(settings, isFilled, isCurrent, TRUE, FALSE, 0)
          [] OTHER ->
                drawTick(settings, isFilled, isCurrent, FALSE, FALSE, 0)

----------------------------------------------------------------------------
(* SpecColour: the dial in Setup at every value, under every tick policy and
   colour strategy *)

\* standard, gradient and seamless colouring, and the animated trail
ColourSettings ==
    { [settings EXCEPT !.gradientColorMode = gcm, !.trailMode = tm] :
        settings \in LayoutSettings,
        <<gcm, tm>> \in (GradientColorModes \X {"standard"})
                            \cup {<<"seamless", "animated">>} }

InitColour ==
    /\ InitWith(ColourSettings, MaxInputs - 1)
    /\ dial \in SetupDials(debugSettings)

NextColour ==
    \/ RotateIncrease
    \/ RotateDecrease
    \/ Press

SpecColour == InitColour /\ [][NextColour]_vars

\* the ticks of the state's frame that are the current tick
CurrentTicks ==
    { i \in 0 .. CurrentLayout.totalTicks - 1 : i = CurrentLayout.currentIndex }

\* C30: in every Setup frame, at every value and under every colour strategy
\* and tick policy, exactly one of the ticks drawn is the current tick, and
\* it is drawn in the accent colour
C30_CurrentTickAccent ==
    Lifecycle(dial) = "Setup" =>
        /\ Cardinality(CurrentTicks) = 1
        /\ \A i \in CurrentTicks :
                TickColour(debugSettings, dial.tempMode, dial.temperature,
                           dial.totalMinutes, i) = Accent

\* reached: a frame of the 15-minute layout under a 72-tick policy and the
\* seamless colouring, in which none of the 72 ticks is the current one and
\* none is drawn in the accent colour
C30_NoCurrentTickDrawn ==
    /\ Lifecycle(dial) = "Setup"
    /\ debugSettings.gradientColorMode = "seamless"
    /\ debugSettings.trailMode = "standard"
    /\ LayoutName(debugSettings, dial.tempMode, dial.totalMinutes)
            = "phaseB15Min"
    /\ CurrentLayout.totalTicks = 72
    /\ CurrentTicks = {}
    /\ \A i \in 0 .. CurrentLayout.totalTicks - 1 :
            TickColour(debugSettings, dial.tempMode, dial.temperature,
                       dial.totalMinutes, i) = GradientShade

----------------------------------------------------------------------------
(* SpecIdle: a dial with an animated trail, turned and then left alone, with
   auto-reset on and off *)

\* the period of the housekeeping interval
housekeepingPeriod == 100
\* periods of the housekeeping interval a run spans
MaxIdleSteps == 10
\* keydown events per run of it
MaxTurns == 2
\* the gap between the rotate events of a quick turn
TurnPace == 10

\* the dial after n rotate-up events TurnPace ms apart, the last one at t
RECURSIVE Turns(_, _, _)
Turns(d, n, t) ==
    IF n = 0 THEN d
    ELSE CHOOSE turned \in { handleKeydown(before, "p", t) :
                                before \in {Turns(d, n - 1, t - TurnPace)} } :
                TRUE

\* the trail length getAnimatedTrailColor colours the ticks with
activeTrailLength(d) ==
    IF d.trailCatchUpAnimation /\ d.currentTrailLength # undefined
    THEN d.currentTrailLength
    ELSE d.trailLength

IdleSettings ==
    { [DefaultDebugSettings EXCEPT !.trailMode = "animated",
                                   !.autoReset = ar] : ar \in BOOLEAN }

\* the periods a catch-up takes from the event that precedes it: one until
\* the interval finds the dial at rest, and those of the animation
CatchUpMs ==
    (1 + (trailCatchUpDuration + housekeepingPeriod - 1)
            \div housekeepingPeriod) * housekeepingPeriod

\* the run has an event left, and time for the animations it starts
TimeToSettle ==
    /\ inputs < MaxTurns
    /\ now + CatchUpMs <= Epoch + MaxIdleSteps * housekeepingPeriod


\* a period of the housekeeping interval passes: the interval has run
Pause ==
    /\ updateLoop(dial, now) = dial
    /\ now + housekeepingPeriod <= Epoch + MaxIdleSteps * housekeepingPeriod
    /\ now' = now + housekeepingPeriod
    /\ event' = NoEvent
    /\ UNCHANGED <<dial, debugSettings, inputs, range>>

\* as constructed, or after a quick turn that has filled the trail
InitIdle ==
    /\ InitWith(IdleSettings, 0)
    /\ dial \in { Constructed(Epoch),
                  Turns(Constructed(Epoch), maxTrailLength, Epoch) }

NextIdle ==
    \/ TimeToSettle /\ RotateIncrease
    \/ TimeToSettle /\ RotateDecrease
    \/ TimeToSettle /\ Press
    \/ TimeToSettle /\ Reset
    \/ TransitionFrame
    \/ HousekeepingInterval
    \/ Pause

\* the browser keeps running the interval and the frames, and time passes
SpecIdle ==
    /\ InitIdle
    /\ [][NextIdle]_vars
    /\ WF_vars(HousekeepingInterval)
    /\ WF_vars(TransitionFrame)
    /\ WF_vars(Pause)

----------------------------------------------------------------------------
(* The animated trail *)

\* C31: in animated trail mode the stored trail length is an integer in 0..7
\* and the length the ticks are coloured with is in 0..7 and at most the
\* stored length, in every frame, those of the catch-up animation included.
C31_TrailLengthBounded ==
    debugSettings.trailMode = "animated"
        => /\ dial.trailLength \in 0 .. maxTrailLength
           /\ activeTrailLength(dial) \in 0 .. maxTrailLength
           /\ activeTrailLength(dial) <= dial.trailLength

\* reached: the first frame of a catch-up colours eight ticks of a trail of
\* seven
C31_CatchUpBeginsOverFull ==
    /\ debugSettings.trailMode = "animated"
    /\ dial.trailCatchUpAnimation
    /\ dial.trailCatchUpStart = now
    /\ dial.trailLength = maxTrailLength
    /\ activeTrailLength(dial) = maxTrailLength + 1

\* a rotate event has changed the value it turns
ValueChangingRotate ==
    /\ event'.key \in {"o", "p"}
    /\ \/ dial'.temperature # dial.temperature
       \/ dial'.totalMinutes # dial.totalMinutes

\* C32: in animated trail mode, with auto-reset on or off, once the rotate
\* events have stopped the catch-up animation runs and the trail length
\* becomes 0, and it stays 0 until a rotate event changes the value.
C32_TrailCaughtUp ==
    /\ <>[](debugSettings.trailMode = "animated" => dial.trailLength = 0)
    /\ [][ (debugSettings.trailMode = "animated"
                /\ dial.trailLength = 0 /\ dial'.trailLength # 0)
            => ValueChangingRotate ]_vars

\* reached: with auto-reset off, the trail is as long at the end of the run,
\* long after the last rotate event, as that event left it
C32_TrailLeftWithoutAutoReset ==
    /\ debugSettings.trailMode = "animated"
    /\ ~debugSettings.autoReset
    /\ now = Epoch + MaxIdleSteps * housekeepingPeriod
    /\ now - dial.lastMovementTime >= CatchUpMs
    /\ dial.trailLength > 0
    /\ ~dial.trailCatchUpAnimation
    /\ activeTrailLength(dial) = dial.trailLength


----------------------------------------------------------------------------
(* The direction of the trail *)

\* the direction a rotate event with that key asks for
DirectionOfKey(key) == IF key = "p" THEN "normal" ELSE "opposite"

\* the step is a rotate event in Setup that asks a 'stay' trail to turn
\* round while the value is within 20% of an end of its range
TurnNearEdge ==
    /\ debugSettings.trailMode = "stay"
    /\ Lifecycle(dial) = "Setup"
    /\ inputs' = inputs + 1
    /\ event'.key \in {"o", "p"}
    /\ dial.trailDirection # DirectionOfKey(event'.key)
    /\ nearBoundary(dial)

\* C33: in 'stay' trail mode during Setup, whenever no cross-fade of the
\* direction is in flight the direction is that of the latest rotate event
\* (normal after an increase, opposite after a decrease), however the rotate
\* events interleave with the frames of the cross-fade; and a rotate event
\* within 20% of an end of the range switches the direction at once and
\* starts no cross-fade.
C33_DirectionFollowsLastRotate ==
    /\ [](( /\ debugSettings.trailMode = "stay"
            /\ Lifecycle(dial) = "Setup"
            /\ dial.trailDirectionAnimationStart = null
            /\ dial.lastKeyPressed \in {"o", "p"} )
            => dial.trailDirection = DirectionOfKey(dial.lastKeyPressed))
    /\ [][ TurnNearEdge
            => /\ dial'.trailDirection = DirectionOfKey(event'.key)
               /\ dial'.trailDirectionTarget = DirectionOfKey(event'.key)
               /\ dial'.trailDirectionAnimationStart
                    = dial.trailDirectionAnimationStart
               /\ dial'.rafTrailDirection = dial.rafTrailDirection ]_vars

\* reached: a decrease and at once an increase, in mid-range; the cross-fade
\* the decrease started has ended and left the trail opposite
C33_TrailOppositeAfterIncrease ==
    /\ debugSettings.trailMode = "stay"
    /\ Lifecycle(dial) = "Setup"
    /\ dial.trailDirectionAnimationStart = null
    /\ dial.rafTrailDirection = 0
    /\ dial.lastKeyPressed = "p"
    /\ dial.trailDirection = "opposite"

----------------------------------------------------------------------------
(* Tick scaling and auto-reset *)

\* the step is the housekeeping interval finding the dial idle for more than
\* the reset delay, with auto-reset on
IdleTick ==
    /\ debugSettings.autoReset
    /\ event' = NoEvent
    /\ dial' = updateLoop(dial, now)
    /\ now' = now
    /\ now - dial.lastActionTime > debugSettings.resetDelayMs

\* C34: tick scaling is active right after every rotate event that changes
\* a value.  With auto-reset on, the housekeeping tick that finds more than
\* the reset delay (450 ms by default) passed since the last such event
\* leaves scaling inactive, and starts the transition back if it was active;
\* a dial left alone gets there, and scaling stays inactive until a rotate
\* event changes a value.  Scaling is deactivated by nothing else than that
\* tick and a reset, so with auto-reset off by a reset only.
C34_ScalingIdlesOut ==
    /\ [][ ValueChangingRotate => dial'.scalingActive ]_vars
    /\ [][ IdleTick
            => /\ ~dial'.scalingActive
               /\ dial.scalingActive
                    => /\ dial'.animatingToState = "inactive"
                       /\ dial'.animationStartTime = now
                       /\ dial'.rafTransition = dial.rafTransition + 1 ]_vars
    /\ [][ (~dial.scalingActive /\ dial'.scalingActive)
            => ValueChangingRotate ]_vars
    /\ [][ (dial.scalingActive /\ ~dial'.scalingActive)
            => \/ event'.key = "r"
               \/ IdleTick ]_vars
    /\ <>[](debugSettings.autoReset => ~dial.scalingActive)

\* reached: auto-reset has ended the scaling a rotate event began, and the
\* transition back to 1.0 has run to its end
C34_ScalingReset ==
    /\ debugSettings.autoReset
    /\ dial.temperature # 400
    /\ ~dial.scalingActive
    /\ dial.animationStartTime = null
    /\ dial.rafTransition = 0
    /\ now - dial.lastActionTime > debugSettings.resetDelayMs

----------------------------------------------------------------------------
(* SpecFrames: the four frame loops of a dial with a 'stay' trail, started,
   superseded and reset, and then left to the browser *)

\* periods of the housekeeping interval a run of it spans
MaxFrameSteps == 12

FrameSettings ==
    { [DefaultDebugSettings EXCEPT !.trailMode = "stay",
                                   !.rapidModeThreshold = 2,
                                   !.autoReset = ar] : ar \in BOOLEAN }

\* the longest any of the animations an event starts can last: the flash,
\* or the reset delay and the scaling transition after it
AnimationMs ==
    Max(Max(debugSettings.flashDuration * debugSettings.flashCount * 2,
            ringFillDuration),
        debugSettings.resetDelayMs + housekeepingPeriod + animationDuration)

\* the run has an event left, and time for the animations it starts
TimeToFinish ==
    /\ inputs < MaxTurns
    /\ now + AnimationMs <= Epoch + MaxFrameSteps * housekeepingPeriod


FramePause ==
    /\ updateLoop(dial, now) = dial
    /\ now + housekeepingPeriod <= Epoch + MaxFrameSteps * housekeepingPeriod
    /\ now' = now + housekeepingPeriod
    /\ event' = NoEvent
    /\ UNCHANGED <<dial, debugSettings, inputs, range>>

\* as constructed (in mid-range), or turned up to the maximum
InitFrames ==
    /\ InitWith(FrameSettings, 0)
    /\ dial \in { Constructed(Epoch),
                  AfterRotate(debugSettings, maxTemp, 10, TRUE, "p") }

NextFrames ==
    \/ TimeToFinish /\ RotateIncrease
    \/ TimeToFinish /\ RotateDecrease
    \/ TimeToFinish /\ Aux
    \/ TimeToFinish /\ Reset
    \/ RingFillFrame
    \/ FlashFrame
    \/ TransitionFrame
    \/ TrailDirectionFrame
    \/ HousekeepingInterval
    \/ FramePause

\* the browser keeps running the frames and the interval, and time passes
SpecFrames ==
    /\ InitFrames
    /\ [][NextFrames]_vars
    /\ WF_vars(RingFillFrame)
    /\ WF_vars(FlashFrame)
    /\ WF_vars(TransitionFrame)
    /\ WF_vars(TrailDirectionFrame)
    /\ WF_vars(HousekeepingInterval)
    /\ WF_vars(FramePause)

\* callbacks waiting for an animation frame
PendingFrames(d) ==
    d.rafRingFill + d.rafFlash + d.rafTransition + d.rafTrailDirection

\* C35: every frame loop (scaling transition, boundary flash, ring fill,
\* cross-fade of the trail direction) ends by itself: once the events have
\* stopped and time passes, no callback is left waiting for a frame, also
\* where an animation was started again or the dial was reset while a
\* frame of it was waiting.
C35_FramesRunOut ==
    <>[](PendingFrames(dial) = 0)

\* reached: no frame is waiting at the end of a run in which the dial was
\* reset while a frame of the ring fill was waiting; that frame has run
C35_ResetRingFillRunOut ==
    /\ PendingFrames(dial) = 0
    /\ now = Epoch + MaxFrameSteps * housekeepingPeriod
    /\ dial.countdownMode
    /\ dial.ringFillStartTime = null

----------------------------------------------------------------------------
(* The flags of the lifecycle *)

\* the number of the flags that are set
FlagsSet(flags) == Cardinality({i \in 1 .. Len(flags) : flags[i]})

\* C36: in every reachable state at most one of ringFillAnimation
\* (Starting), countdownMode (Preheat, Cooking) and cookingComplete
\* (Complete) is true, and preheatPhase is true only while countdownMode is.
C36_OnePhaseFlag ==
    /\ FlagsSet(<<dial.ringFillAnimation, dial.countdownMode,
                  dial.cookingComplete>>) <= 1
    /\ dial.preheatPhase => dial.countdownMode

\* reached: a countdown runs on a dial whose cooking is complete
C36_CountdownInComplete ==
    /\ dial.cookingComplete
    /\ dial.countdownMode
    /\ ~dial.ringFillAnimation
    /\ dial.totalMinutes = 0

----------------------------------------------------------------------------
(* The grid of the time *)

\* C37: in every Setup state totalMinutes is in 1..59 or is 60 + 15k with
\* 0 <= k <= 284, whatever rotate events, with multiplier 1 or 4, came
\* before.
C37_MinutesOnGrid ==
    Lifecycle(dial) = "Setup"
        => \/ dial.totalMinutes \in 1 .. 59
           \/ \E k \in 0 .. 284 : dial.totalMinutes = 60 + 15 * k

\* reached: a rapid increase from 59 has passed 60 and made three
\* quarter-hour steps
C37_RapidIncreaseOverSixty ==
    /\ Lifecycle(dial) = "Setup"
    /\ event.key = "p"
    /\ event.before.totalMinutes = 59
    /\ dial.accelerationMultiplier = maxAcceleration
    /\ dial.totalMinutes = 60 + 15 * 3

----------------------------------------------------------------------------
(* One flash per stay at a bound *)

\* the step has started a flash: startFlashAnimation has requested a frame
FlashStarted == dial'.rafFlash = dial.rafFlash + 1

\* C38: a flash is started only by a rotate event, only while none is in
\* flight, and only if none has been started since a rotate event last
\* changed a value or the dial was reset: the start of a flash is noted in
\* hasFlashedAtBoundary, which only a value-changing rotate and a reset
\* clear.
C38_OneFlashPerStay ==
    /\ [][ FlashStarted
            => /\ event'.key \in {"o", "p"}
               /\ ~dial.isFlashing
               /\ ~dial.hasFlashedAtBoundary \/ ValueChangingRotate
               /\ dial'.isFlashing
               /\ dial'.hasFlashedAtBoundary ]_vars
    /\ [][ (dial.hasFlashedAtBoundary /\ ~dial'.hasFlashedAtBoundary)
            => \/ ValueChangingRotate
               \/ event'.key = "r" ]_vars

\* reached: a rotate event at the bound, made while the flash of the one
\* before it is in flight, has left that flash as it was
C38_HitDuringFlash ==
    /\ RotateAtBound
    /\ event.before.isFlashing
    /\ event.before.hasFlashedAtBoundary
    /\ dial.isFlashing
    /\ dial.flashStartTime = event.before.flashStartTime
    /\ dial.rafFlash = event.before.rafFlash

----------------------------------------------------------------------------
(* The current tick of the temperature *)

\* the index of the current tick the Temperature layout draws at that value
currentTempTickAt(settings, temperature) ==
    temperatureLayout(settings, temperature).currentIndex

\* C39: in Temperature mode, under every tick-count policy, no greater
\* temperature of 300..480 (by 5) has a smaller current tick than the
\* temperature of the state; 300 and 480 have different current ticks; and
\* filledCount is at most totalTicks.
C39_TemperatureTickMonotonic ==
    (Lifecycle(dial) = "Setup" /\ dial.tempMode) =>
        /\ CurrentLayout.currentIndex
                = currentTempTickAt(debugSettings, dial.temperature)
        /\ \A greater \in Temperatures :
                dial.temperature <= greater =>
                    CurrentLayout.currentIndex
                        <= currentTempTickAt(debugSettings, greater)
        /\ currentTempTickAt(debugSettings, minTemp)
                # currentTempTickAt(debugSettings, maxTemp)
        /\ CurrentLayout.filledCount <= CurrentLayout.totalTicks

\* reached: under the default 72-tick policy an increase to 480 has put the
\* current tick back on that of 300, with more ticks filled than are drawn
C39_MaximumOnTickOfMinimum ==
    /\ Lifecycle(dial) = "Setup"
    /\ dial.tempMode
    /\ event.key = "p"
    /\ debugSettings.globalTickMode = "72-continuous"
    /\ dial.temperature = maxTemp
    /\ currentTempTickAt(debugSettings, event.before.temperature) > 0
    /\ CurrentLayout.currentIndex = 0
    /\ currentTempTickAt(debugSettings, minTemp) = 0
    /\ CurrentLayout.filledCount = CurrentLayout.totalTicks + 1

----------------------------------------------------------------------------
(* SpecSegments: a SegmentRange constructed from every kind of option, and
   the calls a host page makes on it *)

\* calls per run
MaxCalls == 3

\* the numbers passed, in halves: -1.5, 0, 2.5, 4, 11.5 and 31
SegmentNumbers == {0 - 3, 0, 5, 8, 23, 62}

SegmentOptions == {Absent} \cup {NumberOption(n) : n \in SegmentNumbers}

RangeOptions ==
    [ variant : {"default", "darkness"},
      minSegments : SegmentOptions, maxSegments : SegmentOptions,
      segments : SegmentOptions, value : SegmentOptions,
      onChange : BOOLEAN ]

\* the host page calls a method of the SegmentRange
Call(method, r) ==
    /\ inputs < MaxCalls
    /\ range' = r
    /\ inputs' = inputs + 1
    /\ event' = [key |-> method, before |-> dial]
    /\ UNCHANGED <<dial, debugSettings, now>>

InitSegments ==
    /\ dial = Constructed(Epoch)
    /\ debugSettings = DefaultDebugSettings
    /\ now = Epoch
    /\ inputs = 0
    /\ event = NoEvent
    /\ range \in { SegmentRange(options) : options \in RangeOptions }

NextSegments ==
    \/ \E count \in SegmentNumbers, preserveValue, suppressEvent \in BOOLEAN :
          Call("setSegments",
               setSegments(range, count, preserveValue, suppressEvent))
    \/ \E value \in SegmentNumbers, suppressEvent, forceUpdate \in BOOLEAN :
          Call("setValue", setValue(range, value, suppressEvent, forceUpdate))
    \/ Call("increment", increment(range))
    \/ Call("decrement", decrement(range))

SpecSegments == InitSegments /\ [][NextSegments]_vars

\* the step is a call of that method
Calls(method) ==
    /\ inputs' = inputs + 1
    /\ event'.key = method

\* C40: after construction and after every sequence of setSegments,
\* setValue, increment and decrement calls with finite numbers,
\* minSegments <= segmentCount <= maxSegments and 1 <= value <=
\* segmentCount; increment at value = segmentCount and decrement at
\* value = 1 change nothing and call no onChange.
C40_ValueInsideSegments ==
    /\ [](/\ range.minSegments <= range.segmentCount
          /\ range.segmentCount <= range.maxSegments
          /\ 1 <= range.value
          /\ range.value <= range.segmentCount)
    /\ [][ (Calls("increment") /\ range.value = range.segmentCount)
            => range' = range ]_vars
    /\ [][ (Calls("decrement") /\ range.value = 1)
            => range' = range ]_vars

\* reached: the first call, increment on a range made with its value on the
\* last of ten segments, has not called onChange
C40_IncrementAtLastSegment ==
    /\ event.key = "increment"
    /\ inputs = 1
    /\ range.onChange
    /\ range.notified = 0
    /\ range.segmentCount = DARKNESS_MAX_SEGMENTS
    /\ range.value = range.segmentCount

====
